---- MODULE Spec2Model ----
(***************************************************************************)
(* Verification model of akavesdk-py.                                      *)
(*                                                                         *)
(* The SDK is a set of loosely coupled components.  Each component has its *)
(* own group of variables, its own initial predicate and its own actions,  *)
(* and is checked under its own specification; the variables of the other  *)
(* components then stay at their initial (idle) value:                     *)
(*                                                                         *)
(*   SpecNonce   NonceManager                  (private/ipc/client.py)     *)
(*   SpecTx      Storage contract binding and receipt waiter, against an   *)
(*               EVM node            (private/ipc/contracts/storage.py,    *)
(*                                    private/ipc/client.py)               *)
(*   SpecRetry   WithRetry.do                  (sdk/sdk.py)                *)
(*   SpecPool    ConnectionPool                (sdk/connection.py)         *)
(*   SpecUpload  the upload pipeline (spec.md 4.8 and 5)                   *)
(***************************************************************************)
EXTENDS Integers, Sequences, FiniteSets, TLC

VARIABLES
    \* ---- NonceManager (client.py:26-48) and its node
    nm_nonce,       \* NonceManager._nonce (None or an integer)
    nm_last_sync,   \* NonceManager._last_sync
    nm_now,         \* time.time(), in seconds
    nm_count,       \* the node's eth.get_transaction_count(address)
    nm_issued,      \* the values get_nonce returned, in order of return
    nm_resets,      \* number of reset_nonce calls made so far
    \* ---- Storage contract binding (storage.py), receipt waiter (client.py)
    \*      and the EVM node they talk to
    tx_count,       \* node: eth.get_transaction_count(from_address), "latest"
    tx_pool,        \* node: pending transactions, [nonce, fn]
    tx_receipts,    \* node: receipts of mined transactions, [nonce, fn, status]
    tx_buckets,     \* contract: number of registry entries of the bucket
    tx_file,        \* contract: "none", "reserved" or "committed"
    tx_pc,          \* per thread: where its current call stands
    tx_fn,          \* per thread: the contract function of its current call
    tx_nonce,       \* per thread: the nonce its transaction was built with
    tx_result,      \* per thread: outcome of the call ("ok" or the exception)
    tx_sends,       \* per thread: outcomes of the send_raw_transaction calls
                    \*             of its current call, in order
    tx_arrived,     \* per thread: what wait_for_tx saw arrive before its deadline
    tx_ops,         \* per thread: calls completed so far
    tx_built,       \* the nonces of the transactions built so far, in build order
    \* ---- WithRetry.do (sdk.py:93-123)
    rt_max_attempts,\* WithRetry.max_attempts
    rt_pc,          \* where do() stands
    rt_attempt,     \* the loop variable attempt
    rt_needs_retry, \* needs_retry of the last call of func
    rt_err,         \* err of the last call of func
    rt_outcomes,    \* what the calls of func returned, in call order
    rt_sleeps,      \* the delays do() slept, in units of base_delay, in order
    rt_ret,         \* what do() returned
    \* ---- ConnectionPool (connection.py)
    cp_connections, \* ConnectionPool._connections: address -> channel (0: none)
    cp_chan,        \* the channels _create_new_connection returned: [addr, state, pooled]
    cp_pc,          \* per thread: where its call stands
    cp_op,          \* per thread: what the call runs: _get_connection, or _create under _retry_with_backoff
    cp_addr,        \* per thread: the address asked for
    cp_retry,       \* per thread: current_retry of _retry_with_backoff (a local: 0 outside a call)
    cp_got,         \* per thread: the channel the call returned (0: none)
    cp_via,         \* per thread: the return statement of _get_connection taken
    cp_raised,      \* per thread: the exception the call raised ("none": none)
    cp_stale,       \* per thread: close() ran since the call started
    cp_calls,       \* calls started so far, by all threads
    cp_pooled,      \* per thread: the argument pooled of the call
    cp_closer,      \* per thread: the channel the returned closer closes (0: closer is None)
    cp_probe,       \* per thread: how the readiness probe of its new channel ended
    cp_closed,      \* the last close(): channels attempted, errors collected, SDKError raised
    \* ---- upload pipeline (spec.md 4.8, 5)
    up_total,       \* number of chunks the reader holds
    up_max_concurrency, \* option max_concurrency
    up_phase,       \* where the upload stands
    up_read,        \* chunks read so far (the next chunk index)
    up_block,       \* per chunk and block: "unread", "unsent", "inflight", "acked", "failed"
    up_cancelled,   \* the cancellation token was set
    up_at_cancel,   \* up_block as it was when the token was set
    up_file,        \* the file on-chain: "none", "reserved" or "committed"
    up_commits,     \* commitFile transactions issued
    up_result,      \* what upload() reported to its caller
    up_input,       \* the CID of each chunk of the input, by chunk index
    up_links,       \* DAGRoot.links of the file-level root
    up_root,        \* the rootCID given to commitFile
    up_overtaken,   \* a chunk was ACKed in full before a chunk of lower index
    \* ---- Splitter (private/encryption/splitter.py)
    sp_source,      \* the bytes of the reader
    sp_kind,        \* the reader: "seekable", "no seek" (no seek attribute), "seek raises"
    sp_pos,         \* the position of the reader
    sp_block_size,  \* Splitter.block_size
    sp_key_ok,      \* encrypt accepts Splitter.key
    sp_counter,     \* Splitter.counter
    sp_eof_reached, \* Splitter._eof_reached
    sp_results,     \* what the calls of next_bytes returned since construction or the last reset
    sp_nreads,      \* calls of reader.read since construction or the last reset
    sp_start,       \* the position of the reader at construction or after the last reset
    sp_calls,       \* calls of next_bytes so far
    sp_resets,      \* calls of reset so far
    sp_last_reset,  \* what the last reset did, with the counter before and after it
    \* ---- SDK.__init__ (sdk/sdk.py)
    sdk_config,     \* SDKConfig: block_part_size, len(encryption_key), the two erasure options, ipc_address
    sdk_state,      \* "new", "constructed" or "failed"
    sdk_error,      \* the exception __init__ raised ("none": none)
    sdk_conn,       \* self.conn: a channel (0: None)
    sdk_ipc_conn,   \* self.ipc_conn: a channel (0: None)
    sdk_open,       \* the channels opened and not closed
    sdk_erasure,    \* self.streaming_erasure_code
    sdk_closes,     \* how often the last close() closed each channel
    sdk_ncloses,    \* calls of close() so far
    \* ---- the DAG builder (sdk/dag.py)
    dag_ipld,       \* IPLD_AVAILABLE: the dag-pb libraries were imported
    dag_block_size, \* block_size
    dag_has_key,    \* build_dag got a non-empty enc_key
    dag_data,       \* what the reader of the last build_dag yielded
    dag_chunk,      \* the ChunkDAG the last build_dag returned, or its DAGError
    dag_added,      \* the last ChunkDAG was added to the DAGRoot
    dag_links,      \* DAGRoot.links
    dag_root,       \* what the last DAGRoot.build returned, or its DAGError
    dag_calls,      \* calls of build_dag so far
    \* ---- ErasureCode (sdk/erasure_code.py)
    ec_data_blocks,   \* self.data_blocks (k)
    ec_parity_blocks, \* self.parity_blocks (m)
    ec_data,          \* the data given to encode
    ec_pc,            \* "new", "encoded" or "extracted"
    ec_shards,        \* the k+m shards of what encode returned
    ec_missing,       \* indices of the shards given as None to extract_data_blocks
    ec_result,        \* what extract_data_blocks returned, or its error
    \* ---- the download pipeline (spec.md 4.9)
    dl_erasure,     \* the erasure coder configured: [on, k, m]
    dl_block_size,  \* the block size the file was uploaded with (no coder)
    dl_file,        \* the bytes of each chunk of the file, as uploaded
    dl_pc,          \* "next", "fetch", "done" or "failed"
    dl_cur,         \* index of the chunk in work
    dl_expected,    \* the payloads of the blocks of the chunk in work
    dl_blocks,      \* the blocks of the chunk in work, as fetched and verified
    dl_created,     \* chunk downloads created, per chunk
    dl_outcome,     \* per chunk: "none", "written" or "failed"
    dl_erased,      \* per chunk: blocks found missing or mismatched
    dl_sink,        \* the bytes written to the sink
    \* ---- bucket and file operations of SDK (sdk/sdk.py) and IPC (sdk/sdk_ipc.py)
    fc_buckets,     \* the buckets the node and the Storage contract know
    fc_files,       \* the files the Storage contract holds: <<bucket, file>>
    fc_access_manager, \* ipc.access_manager is set
    fc_call,        \* the last call: [api, op, bucket, file, flag]
    fc_grpc,        \* the gRPC requests the last call issued, in order
    fc_views,       \* the contract views the last call read, in order
    fc_txs,         \* the transactions the last call submitted, in order
    fc_result,      \* what the last call returned or raised: [kind, value]
    fc_before,      \* fc_buckets and fc_files before the last call
    fc_prev,        \* the call before the last and its result, when that was a
                    \* create_bucket or view_bucket that returned
    fc_calls,       \* calls so far
    \* ---- DAGRoot (sdk/dag.py)
    dr_ipld,            \* IPLD_AVAILABLE
    dr_links,           \* self.links
    dr_total_file_size, \* self.total_file_size
    dr_args,            \* the arguments of the add_link calls so far, in order
    dr_root,            \* what build() returned or raised since the last add_link
    \* ---- one caller of ConnectionPool.create_client / create_ipc_client
    cn_connections, \* self._connections[addr] of the one node address
    cn_chan,        \* every channel grpc.insecure_channel made: [state, probe]
    cn_pc,          \* "idle", "run" (func is called next), "sleep", "done"
    cn_call,        \* the call: [op, addr, pooled]
    cn_current_retry, \* current_retry of _retry_with_backoff
    cn_runs,        \* how each run of the creation step of this call ended
    cn_slept,       \* time.sleep calls of this call
    cn_result,      \* what the call returned or raised: [kind, msg, conn]
    cn_calls,       \* calls so far
    \* ---- encryption_key_derivation (sdk/sdk.py)
    kd_parent_key,  \* the root key, a sequence of bytes
    kd_info_data,   \* the path components of one file
    kd_other_info,  \* the path components of another derivation
    kd_pc,          \* "new", "derived" (the first), "both"
    kd_key,         \* the key derived from kd_info_data
    kd_other_key,   \* the key derived from kd_other_info
    kd_derive_calls, \* the calls of derive_key so far: [key, info]
    \* ---- EIP-712 signer (private/eip712.py)
    sg_key,         \* the private key that signs
    sg_chain_id,    \* chainId of the domain
    sg_message,     \* the StorageData message
    sg_library_v,   \* what the library adds to the recovery id: 0 or 27
    sg_pc,          \* "new", "signed", "recovered"
    sg_signature,   \* the bytes sign() returned
    sg_recovered    \* what recover_signer_address returned

nmVars == <<nm_nonce, nm_last_sync, nm_now, nm_count, nm_issued, nm_resets>>

txVars == <<tx_count, tx_pool, tx_receipts, tx_buckets, tx_file, tx_pc, tx_fn,
            tx_nonce, tx_result, tx_sends, tx_arrived, tx_ops, tx_built>>

rtVars == <<rt_max_attempts, rt_pc, rt_attempt, rt_needs_retry, rt_err,
            rt_outcomes, rt_sleeps, rt_ret>>

cpVars == <<cp_connections, cp_chan, cp_pc, cp_op, cp_addr, cp_retry, cp_got,
            cp_via, cp_raised, cp_stale, cp_calls, cp_pooled, cp_closer,
            cp_probe, cp_closed>>

upVars == <<up_total, up_max_concurrency, up_phase, up_read, up_block,
            up_cancelled, up_at_cancel, up_file, up_commits, up_result,
            up_input, up_links, up_root, up_overtaken>>

spVars == <<sp_source, sp_kind, sp_pos, sp_block_size, sp_key_ok, sp_counter,
            sp_eof_reached, sp_results, sp_nreads, sp_start, sp_calls, sp_resets,
            sp_last_reset>>

sdkVars == <<sdk_config, sdk_state, sdk_error, sdk_conn, sdk_ipc_conn, sdk_open,
             sdk_erasure, sdk_closes, sdk_ncloses>>

dagVars == <<dag_ipld, dag_block_size, dag_has_key, dag_data, dag_chunk,
             dag_added, dag_links, dag_root, dag_calls>>

ecVars == <<ec_data_blocks, ec_parity_blocks, ec_data, ec_pc, ec_shards,
            ec_missing, ec_result>>

dlVars == <<dl_erasure, dl_block_size, dl_file, dl_pc, dl_cur, dl_expected,
            dl_blocks, dl_created, dl_outcome, dl_erased, dl_sink>>

fcVars == <<fc_buckets, fc_files, fc_access_manager, fc_call, fc_grpc,
            fc_views, fc_txs, fc_result, fc_before, fc_prev, fc_calls>>

drVars == <<dr_ipld, dr_links, dr_total_file_size, dr_args, dr_root>>

cnVars == <<cn_connections, cn_chan, cn_pc, cn_call, cn_current_retry,
            cn_runs, cn_slept, cn_result, cn_calls>>

kdVars == <<kd_parent_key, kd_info_data, kd_other_info, kd_pc, kd_key,
            kd_other_key, kd_derive_calls>>

sgVars == <<sg_key, sg_chain_id, sg_message, sg_library_v, sg_pc,
            sg_signature, sg_recovered>>

vars == <<nmVars, txVars, rtVars, cpVars, upVars, spVars, sdkVars, dagVars,
         ecVars, dlVars, fcVars, drVars, cnVars, kdVars, sgVars>>

\* what the actions of one component leave alone
notNonce    == <<txVars, rtVars, cpVars, upVars, spVars, sdkVars, dagVars,
                  ecVars, dlVars, fcVars, drVars, cnVars, kdVars, sgVars>>
notTx       == <<nmVars, rtVars, cpVars, upVars, spVars, sdkVars, dagVars,
                  ecVars, dlVars, fcVars, drVars, cnVars, kdVars, sgVars>>
notRetry    == <<nmVars, txVars, cpVars, upVars, spVars, sdkVars, dagVars,
                  ecVars, dlVars, fcVars, drVars, cnVars, kdVars, sgVars>>
notPool     == <<nmVars, txVars, rtVars, upVars, spVars, sdkVars, dagVars,
                  ecVars, dlVars, fcVars, drVars, cnVars, kdVars, sgVars>>
notUpload   == <<nmVars, txVars, rtVars, cpVars, spVars, sdkVars, dagVars,
                  ecVars, dlVars, fcVars, drVars, cnVars, kdVars, sgVars>>
notSplitter == <<nmVars, txVars, rtVars, cpVars, upVars, sdkVars, dagVars,
                  ecVars, dlVars, fcVars, drVars, cnVars, kdVars, sgVars>>
notSDK      == <<nmVars, txVars, rtVars, cpVars, upVars, spVars, dagVars,
                  ecVars, dlVars, fcVars, drVars, cnVars, kdVars, sgVars>>
notDag      == <<nmVars, txVars, rtVars, cpVars, upVars, spVars, sdkVars,
                  ecVars, dlVars, fcVars, drVars, cnVars, kdVars, sgVars>>
notErasure  == <<nmVars, txVars, rtVars, cpVars, upVars, spVars, sdkVars,
                  dagVars, dlVars, fcVars, drVars, cnVars, kdVars, sgVars>>
notDownload == <<nmVars, txVars, rtVars, cpVars, upVars, spVars, sdkVars,
                  dagVars, ecVars, fcVars, drVars, cnVars, kdVars, sgVars>>
notFacade   == <<nmVars, txVars, rtVars, cpVars, upVars, spVars, sdkVars,
                  dagVars, ecVars, dlVars, drVars, cnVars, kdVars, sgVars>>
notRoot     == <<nmVars, txVars, rtVars, cpVars, upVars, spVars, sdkVars,
                  dagVars, ecVars, dlVars, fcVars, cnVars, kdVars, sgVars>>
notConnect  == <<nmVars, txVars, rtVars, cpVars, upVars, spVars, sdkVars,
                  dagVars, ecVars, dlVars, fcVars, drVars, kdVars, sgVars>>
notKey      == <<nmVars, txVars, rtVars, cpVars, upVars, spVars, sdkVars,
                  dagVars, ecVars, dlVars, fcVars, drVars, cnVars, sgVars>>
notSigner   == <<nmVars, txVars, rtVars, cpVars, upVars, spVars, sdkVars,
                  dagVars, ecVars, dlVars, fcVars, drVars, cnVars, kdVars>>

(***************************************************************************)
(* Generic helpers                                                         *)
(***************************************************************************)
StrictlyIncreasing(s) == \A i, j \in DOMAIN s : i < j => s[i] < s[j]

(***************************************************************************)
(*                            NonceManager                                 *)
(***************************************************************************)
\* self._nonce = None (client.py:31); nonces themselves are >= 0
None == -1

\* the resync age of get_nonce, in seconds (client.py:38)
SyncAge == 30

\* bounds of the NonceManager model
MaxTime   == 62     \* the clock stops here
MaxCount  == 3      \* the node's transaction count stops here
MaxIssued == 4      \* get_nonce calls in one run
MaxResets == 2      \* reset_nonce calls in one run

\* the steps by which the clock advances between two calls
TickSteps == {SyncAge \div 2, SyncAge + 1}

NonceStart ==
    /\ nm_nonce = None
    /\ nm_last_sync = 0
    /\ nm_now \in {0, SyncAge + 1}
    /\ nm_count \in 0..1
    /\ nm_issued = <<>>
    /\ nm_resets = 0

\* NonceManager.get_nonce: the whole body runs under self._lock, so calls of
\* different threads are serialized and each call is one atomic step.
NeedsSync == nm_nonce = None \/ (nm_now - nm_last_sync) > SyncAge

SyncedNonce == IF NeedsSync THEN nm_count ELSE nm_nonce

get_nonce ==
    /\ Len(nm_issued) < MaxIssued
    /\ nm_last_sync' = IF NeedsSync THEN nm_now ELSE nm_last_sync
    /\ nm_issued' = Append(nm_issued, SyncedNonce)
    /\ nm_nonce' = SyncedNonce + 1
    /\ UNCHANGED <<nm_now, nm_count, nm_resets>>
    /\ UNCHANGED notNonce

\* NonceManager.reset_nonce, under the same lock
reset_nonce ==
    /\ nm_resets < MaxResets
    /\ nm_nonce' = None
    /\ nm_resets' = nm_resets + 1
    /\ UNCHANGED <<nm_last_sync, nm_now, nm_count, nm_issued>>
    /\ UNCHANGED notNonce

\* time passes between two calls
NonceTick ==
    \E d \in TickSteps :
        /\ nm_now + d <= MaxTime
        /\ nm_now' = nm_now + d
        /\ UNCHANGED <<nm_nonce, nm_last_sync, nm_count, nm_issued, nm_resets>>
        /\ UNCHANGED notNonce

\* the node includes one more transaction of the account in a block: one of
\* the transactions built with a handed-out nonce, or one sent by another
\* client that signs with the same key
NodeCountAdvance ==
    /\ nm_count < MaxCount
    /\ nm_count' = nm_count + 1
    /\ UNCHANGED <<nm_nonce, nm_last_sync, nm_now, nm_issued, nm_resets>>
    /\ UNCHANGED notNonce

\* the NonceManager while another component is checked
NonceIdle ==
    /\ nm_nonce = None
    /\ nm_last_sync = 0
    /\ nm_now = 0
    /\ nm_count = 0
    /\ nm_issued = <<>>
    /\ nm_resets = 0

NonceNext ==
    \/ get_nonce
    \/ reset_nonce
    \/ NonceTick
    \/ NodeCountAdvance

(***************************************************************************)
(*        Storage contract binding, receipt waiter and the EVM node        *)
(*                                                                         *)
(* Threads of one client (one account) call the write methods of           *)
(* StorageContract.  Each method reads the nonce with                      *)
(* eth.get_transaction_count, builds and signs the transaction, sends it   *)
(* with eth.send_raw_transaction and (all but delete_bucket) waits for the *)
(* receipt.  Every RPC is a suspension point, so the steps of different    *)
(* threads interleave.  The gas price is the same over a run.              *)
(***************************************************************************)
NumThreads == 2     \* bound: threads submitting transactions
MaxOps     == 2     \* bound: calls per thread

Threads == 1..NumThreads

WriteFns == {"createBucket", "createFile", "commitFile", "deleteBucket", "deleteFile"}

\* receipt.status of a mined transaction
StatusOK     == 1
StatusFailed == 0

TxStart ==
    /\ tx_count = 0
    /\ tx_pool = {}
    /\ tx_receipts = {}
    /\ tx_buckets \in {0, 1}
    /\ tx_file = "none"
    /\ tx_pc = [t \in Threads |-> "idle"]
    /\ tx_fn = [t \in Threads |-> "none"]
    /\ tx_nonce = [t \in Threads |-> None]
    /\ tx_result = [t \in Threads |-> "none"]
    /\ tx_sends = [t \in Threads |-> <<>>]
    /\ tx_arrived = [t \in Threads |-> "unset"]
    /\ tx_ops = [t \in Threads |-> 0]
    /\ tx_built = <<>>

TxIdle ==
    /\ tx_count = 0
    /\ tx_pool = {}
    /\ tx_receipts = {}
    /\ tx_buckets = 0
    /\ tx_file = "none"
    /\ tx_pc = [t \in Threads |-> "idle"]
    /\ tx_fn = [t \in Threads |-> "none"]
    /\ tx_nonce = [t \in Threads |-> None]
    /\ tx_result = [t \in Threads |-> "none"]
    /\ tx_sends = [t \in Threads |-> <<>>]
    /\ tx_arrived = [t \in Threads |-> "unset"]
    /\ tx_ops = [t \in Threads |-> 0]
    /\ tx_built = <<>>

\* ---- the node and the contract (spec.md 3 and 4.7)

\* the Storage contract executing fn: does it succeed in the current state?
ContractAccepts(fn) ==
    CASE fn = "createBucket" -> tx_buckets = 0
      [] fn = "deleteBucket" -> tx_buckets = 1 /\ tx_file = "none"
      [] fn = "createFile"   -> tx_buckets = 1 /\ tx_file = "none"
      [] fn = "commitFile"   -> tx_buckets = 1 /\ tx_file = "reserved"
      [] fn = "deleteFile"   -> tx_buckets = 1 /\ tx_file # "none"

BucketsAfter(fn) ==
    CASE fn = "createBucket" -> tx_buckets + 1
      [] fn = "deleteBucket" -> tx_buckets - 1
      [] OTHER               -> tx_buckets

FileAfter(fn) ==
    CASE fn = "createFile" -> "reserved"
      [] fn = "commitFile" -> "committed"
      [] fn = "deleteFile" -> "none"
      [] OTHER             -> tx_file

\* what eth.send_raw_transaction answers for a transaction [nonce, fn]
SendOutcome(nonce, fn) ==
    IF nonce < tx_count THEN "nonce too low"
    ELSE IF [nonce |-> nonce, fn |-> fn] \in tx_pool THEN "already known"
    ELSE IF \E p \in tx_pool : p.nonce = nonce
         THEN "replacement transaction underpriced"
    ELSE "accepted"

HasReceipt(nonce, fn) == \E r \in tx_receipts : r.nonce = nonce /\ r.fn = fn

ReceiptOf(nonce, fn) == CHOOSE r \in tx_receipts : r.nonce = nonce /\ r.fn = fn

\* the node mines the pending transaction whose nonce is the next one
Mine ==
    /\ \E p \in tx_pool :
        /\ p.nonce = tx_count
        /\ tx_pool' = tx_pool \ {p}
        /\ tx_count' = tx_count + 1
        /\ IF ContractAccepts(p.fn)
           THEN /\ tx_receipts' = tx_receipts \cup
                      {[nonce |-> p.nonce, fn |-> p.fn, status |-> StatusOK]}
                /\ tx_buckets' = BucketsAfter(p.fn)
                /\ tx_file' = FileAfter(p.fn)
           ELSE /\ tx_receipts' = tx_receipts \cup
                      {[nonce |-> p.nonce, fn |-> p.fn, status |-> StatusFailed]}
                /\ UNCHANGED <<tx_buckets, tx_file>>
    /\ UNCHANGED <<tx_pc, tx_fn, tx_nonce, tx_result, tx_sends, tx_arrived, tx_ops,
                   tx_built>>
    /\ UNCHANGED notTx

\* ---- StorageContract write methods (storage.py:213-381)

\* 'nonce': self.web3.eth.get_transaction_count(from_address), as every write
\* method of the binding sets it (storage.py:226, 270, 309, 342, 369)
TxNonce == tx_count

\* build_transaction: the thread starts a call of fn and builds its transaction
BuildTransaction(t, fn) ==
    /\ tx_pc[t] = "idle"
    /\ tx_ops[t] < MaxOps
    /\ tx_pc' = [tx_pc EXCEPT ![t] = "built"]
    /\ tx_fn' = [tx_fn EXCEPT ![t] = fn]
    /\ tx_nonce' = [tx_nonce EXCEPT ![t] = TxNonce]
    /\ tx_result' = [tx_result EXCEPT ![t] = "none"]
    /\ tx_sends' = [tx_sends EXCEPT ![t] = <<>>]
    /\ tx_built' = Append(tx_built, TxNonce)
    /\ UNCHANGED <<tx_count, tx_pool, tx_receipts, tx_buckets, tx_file, tx_arrived,
                   tx_ops>>
    /\ UNCHANGED notTx

\* where a call goes once the node accepted its transaction: delete_bucket
\* returns the hash (storage.py:353), the others wait for the receipt
AfterSend(fn) == IF fn = "deleteBucket" THEN "hash" ELSE "sent"

\* send_raw_transaction: an exception of the node propagates out of the method
\* (no method of the binding catches it, retries or resets a nonce)
SendRawTransaction(t) ==
    /\ tx_pc[t] = "built"
    /\ LET out == SendOutcome(tx_nonce[t], tx_fn[t]) IN
        /\ tx_sends' = [tx_sends EXCEPT ![t] = Append(@, out)]
        /\ IF out = "accepted"
           THEN /\ tx_pool' = tx_pool \cup {[nonce |-> tx_nonce[t], fn |-> tx_fn[t]]}
                /\ tx_pc' = [tx_pc EXCEPT ![t] = AfterSend(tx_fn[t])]
                /\ UNCHANGED tx_result
           ELSE /\ tx_pc' = [tx_pc EXCEPT ![t] = "done"]
                /\ tx_result' = [tx_result EXCEPT ![t] = out]
                /\ UNCHANGED tx_pool
    /\ UNCHANGED <<tx_count, tx_receipts, tx_buckets, tx_file, tx_fn, tx_nonce,
                   tx_arrived, tx_ops, tx_built>>
    /\ UNCHANGED notTx

\* the exception a write method raises on receipt.status != 1
\* (storage.py:244-252, 281-282, 320-321, 380-381)
FailedReceiptError(fn) ==
    CASE fn = "createBucket" ->
            \* the revert reason is asked for with a call() on the current state
            IF ~ContractAccepts("createBucket")
            THEN "Transaction reverted" ELSE "Transaction failed. Receipt"
      [] fn = "commitFile" -> "Transaction failed for commitFile"
      [] OTHER -> "Transaction failed"

\* receipt = self.web3.eth.wait_for_transaction_receipt(tx_hash), receipt there
AwaitReceipt(t) ==
    /\ tx_pc[t] = "sent"
    /\ HasReceipt(tx_nonce[t], tx_fn[t])
    /\ tx_pc' = [tx_pc EXCEPT ![t] = "done"]
    /\ tx_result' = [tx_result EXCEPT ![t] =
            IF ReceiptOf(tx_nonce[t], tx_fn[t]).status = StatusOK
            THEN "ok" ELSE FailedReceiptError(tx_fn[t])]
    /\ UNCHANGED <<tx_count, tx_pool, tx_receipts, tx_buckets, tx_file, tx_fn,
                   tx_nonce, tx_sends, tx_arrived, tx_ops, tx_built>>
    /\ UNCHANGED notTx

\* the same wait running into web3's timeout before the transaction is mined
ReceiptTimeExhausted(t) ==
    /\ tx_pc[t] = "sent"
    /\ ~HasReceipt(tx_nonce[t], tx_fn[t])
    /\ tx_pc' = [tx_pc EXCEPT ![t] = "done"]
    /\ tx_result' = [tx_result EXCEPT ![t] = "TimeExhausted"]
    /\ UNCHANGED <<tx_count, tx_pool, tx_receipts, tx_buckets, tx_file, tx_fn,
                   tx_nonce, tx_sends, tx_arrived, tx_ops, tx_built>>
    /\ UNCHANGED notTx

\* ---- Client._wait_for_tx_receipt (client.py:91-101)

\* what happens inside the try block: arrived is "status1", "status0" (a
\* receipt arrived with that status) or "none" (web3 timed out)
RaisedInTry(arrived) ==
    CASE arrived = "none"    -> "TimeExhausted"
      [] arrived = "status0" -> "TransactionFailedError"
      [] arrived = "status1" -> "nothing"

\* except Exception as e: raise TimeoutError(...) from e
wait_for_tx_receipt(arrived) ==
    IF RaisedInTry(arrived) = "nothing" THEN "ok" ELSE "TimeoutError"

Arrived(nonce, fn) ==
    IF ~HasReceipt(nonce, fn) THEN "none"
    ELSE IF ReceiptOf(nonce, fn).status = StatusOK THEN "status1" ELSE "status0"

\* Client.wait_for_tx(tx_hash) on the hash delete_bucket returned: it returns
\* or raises when the receipt is there
wait_for_tx(t) ==
    /\ tx_pc[t] = "hash"
    /\ HasReceipt(tx_nonce[t], tx_fn[t])
    /\ tx_pc' = [tx_pc EXCEPT ![t] = "done"]
    /\ tx_result' = [tx_result EXCEPT ![t] =
            wait_for_tx_receipt(Arrived(tx_nonce[t], tx_fn[t]))]
    /\ tx_arrived' = [tx_arrived EXCEPT ![t] = Arrived(tx_nonce[t], tx_fn[t])]
    /\ UNCHANGED <<tx_count, tx_pool, tx_receipts, tx_buckets, tx_file, tx_fn,
                   tx_nonce, tx_sends, tx_ops, tx_built>>
    /\ UNCHANGED notTx

\* ... or when the deadline passes with no receipt
wait_for_tx_deadline(t) ==
    /\ tx_pc[t] = "hash"
    /\ ~HasReceipt(tx_nonce[t], tx_fn[t])
    /\ tx_pc' = [tx_pc EXCEPT ![t] = "done"]
    /\ tx_result' = [tx_result EXCEPT ![t] =
            wait_for_tx_receipt(Arrived(tx_nonce[t], tx_fn[t]))]
    /\ tx_arrived' = [tx_arrived EXCEPT ![t] = Arrived(tx_nonce[t], tx_fn[t])]
    /\ UNCHANGED <<tx_count, tx_pool, tx_receipts, tx_buckets, tx_file, tx_fn,
                   tx_nonce, tx_sends, tx_ops, tx_built>>
    /\ UNCHANGED notTx

\* the call is over (returned or raised); the thread is free for the next one
TxReturn(t) ==
    /\ tx_pc[t] = "done"
    /\ tx_pc' = [tx_pc EXCEPT ![t] = "idle"]
    /\ tx_ops' = [tx_ops EXCEPT ![t] = @ + 1]
    /\ tx_fn' = [tx_fn EXCEPT ![t] = "none"]
    /\ tx_nonce' = [tx_nonce EXCEPT ![t] = None]
    /\ tx_result' = [tx_result EXCEPT ![t] = "none"]
    /\ tx_sends' = [tx_sends EXCEPT ![t] = <<>>]
    /\ tx_arrived' = [tx_arrived EXCEPT ![t] = "unset"]
    /\ UNCHANGED <<tx_count, tx_pool, tx_receipts, tx_buckets, tx_file, tx_built>>
    /\ UNCHANGED notTx

\* ---- is_retryable_tx_error (sdk.py:381-392)

\* str(err), word by word, of the exceptions the node and the binding raise
ErrorText(msg) ==
    CASE msg = "nonce too low" -> <<"nonce", "too", "low">>
      [] msg = "already known" -> <<"already", "known">>
      [] msg = "replacement transaction underpriced" ->
            <<"replacement", "transaction", "underpriced">>
      [] msg = "unexpected EOF" -> <<"unexpected", "EOF">>
      [] msg = "Transaction failed" -> <<"Transaction", "failed">>
      [] msg = "Transaction reverted" -> <<"Transaction", "reverted">>
      [] msg = "Transaction failed. Receipt" -> <<"Transaction", "failed", "Receipt">>
      [] msg = "Transaction failed for commitFile" ->
            <<"Transaction", "failed", "for", "commitFile">>
      [] msg = "TimeExhausted" -> <<"TimeExhausted">>
      [] msg = "TimeoutError" -> <<"Timeout", "waiting", "for", "transaction">>
      [] OTHER -> <<>>

\* str.lower() of one word
LowerWord(w) ==
    CASE w = "EOF" -> "eof"
      [] w = "Transaction" -> "transaction"
      [] w = "Receipt" -> "receipt"
      [] w = "commitFile" -> "commitfile"
      [] w = "TimeExhausted" -> "timeexhausted"
      [] w = "Timeout" -> "timeout"
      [] OTHER -> w

Lower(text) == [i \in DOMAIN text |-> LowerWord(text[i])]

\* phrase in text
Contains(text, phrase) ==
    \E i \in 1..(Len(text) - Len(phrase) + 1) :
        SubSeq(text, i, i + Len(phrase) - 1) = phrase

retryable_errors ==
    { <<"nonce", "too", "low">>,
      <<"replacement", "transaction", "underpriced">>,
      <<"eof">> }

is_retryable_tx_error(msg) ==
    \E e \in retryable_errors : Contains(Lower(ErrorText(msg)), e)

\* ---- the upload's reserve phase (spec.md 4.8 step 2)

\* create_file_upload reports the contract's FileAlreadyExists revert as
\* "file already exists" and any other exception of create_file as it is
FileUploadError(msg) ==
    IF msg = "FileAlreadyExists" THEN "file already exists" ELSE msg

TxNext ==
    \/ \E t \in Threads, fn \in WriteFns : BuildTransaction(t, fn)
    \/ \E t \in Threads : SendRawTransaction(t)
    \/ \E t \in Threads : AwaitReceipt(t)
    \/ \E t \in Threads : ReceiptTimeExhausted(t)
    \/ \E t \in Threads : wait_for_tx(t)
    \/ \E t \in Threads : wait_for_tx_deadline(t)
    \/ \E t \in Threads : TxReturn(t)
    \/ Mine

(***************************************************************************)
(*                             WithRetry.do                                *)
(*                                                                         *)
(* func is the caller's operation: each call returns (needs_retry, err),   *)
(* any of them.  A call of func and the tests of its result that follow it *)
(* in do() are one step.                                                   *)
(***************************************************************************)
\* max_attempts: int = 5 (sdk.py:95)
DefaultMaxAttempts == 5

\* WithoutRetry: WithRetry(max_attempts=0) (sdk.py:170)
NoRetryMaxAttempts == 0

NoErr == "None"

\* the errors func may return
Errors == {"e1", "e2"}

\* the results of one call of func: (needs_retry, err)
FuncResults == [needs_retry : BOOLEAN, err : Errors \cup {NoErr}]

Unset == [kind |-> "unset", err |-> NoErr]

RetryStart ==
    /\ rt_max_attempts \in {DefaultMaxAttempts, NoRetryMaxAttempts}
    /\ rt_pc = "first"
    /\ rt_attempt = 0
    /\ rt_needs_retry = FALSE
    /\ rt_err = NoErr
    /\ rt_outcomes = <<>>
    /\ rt_sleeps = <<>>
    /\ rt_ret = Unset

RetryIdle ==
    /\ rt_max_attempts = DefaultMaxAttempts
    /\ rt_pc = "first"
    /\ rt_attempt = 0
    /\ rt_needs_retry = FALSE
    /\ rt_err = NoErr
    /\ rt_outcomes = <<>>
    /\ rt_sleeps = <<>>
    /\ rt_ret = Unset

\* return None / return err
Returned(err) == [kind |-> IF err = NoErr THEN "None" ELSE "err", err |-> err]

\* return Exception(f"max retries exceeded: {err}")
MaxRetriesExceeded(err) == [kind |-> "max retries exceeded", err |-> err]

\* after the first call: if err is None: return None
\*                       if not needs_retry or self.max_attempts == 0: return err
FirstCallReturns(needs_retry, err) ==
    err = NoErr \/ ~needs_retry \/ rt_max_attempts = 0

\* (mutant) the loop forgets the test of needs_retry
RetryCallReturnsOnSuccessOnly(needs_retry, err) ==
    err = NoErr

\* after a call in the loop: if err is None: return None
\*                           if not needs_retry: return err
RetryCallReturns(needs_retry, err) ==
    err = NoErr \/ ~needs_retry

\* (mutant) for attempt in range(self.max_attempts + 1)
RetryLoopOneMore(attempt) == attempt < rt_max_attempts + 1

\* for attempt in range(self.max_attempts)
RetryLoopContinues(attempt) == attempt < rt_max_attempts

\* sleep_duration(attempt, base) = base * 2 ** attempt + uniform(0, base), in
\* units of base; the jitter is one end or the other of its interval
sleep_duration(attempt, jitter) == 2 ^ attempt + jitter

Jitters == {0, 1}

\* needs_retry, err = func()   (sdk.py:99-103)
RetryFirstCall ==
    /\ rt_pc = "first"
    /\ \E r \in FuncResults :
        /\ rt_needs_retry' = r.needs_retry
        /\ rt_err' = r.err
        /\ rt_outcomes' = Append(rt_outcomes, r)
        /\ IF FirstCallReturns(r.needs_retry, r.err)
           THEN /\ rt_pc' = "returned"
                /\ rt_ret' = Returned(r.err)
           ELSE /\ rt_pc' = "loop"
                /\ UNCHANGED rt_ret
    /\ UNCHANGED <<rt_max_attempts, rt_attempt, rt_sleeps>>
    /\ UNCHANGED notRetry

\* the loop goes round once more: time.sleep(delay)   (sdk.py:110-115)
RetrySleep ==
    /\ rt_pc = "loop"
    /\ RetryLoopContinues(rt_attempt)
    /\ \E j \in Jitters :
        rt_sleeps' = Append(rt_sleeps, sleep_duration(rt_attempt, j))
    /\ rt_pc' = "call"
    /\ UNCHANGED <<rt_max_attempts, rt_attempt, rt_needs_retry, rt_err,
                   rt_outcomes, rt_ret>>
    /\ UNCHANGED notRetry

\* needs_retry, err = func() in the loop   (sdk.py:117-121)
RetryCall ==
    /\ rt_pc = "call"
    /\ \E r \in FuncResults :
        /\ rt_needs_retry' = r.needs_retry
        /\ rt_err' = r.err
        /\ rt_outcomes' = Append(rt_outcomes, r)
        /\ IF RetryCallReturns(r.needs_retry, r.err)
           THEN /\ rt_pc' = "returned"
                /\ rt_ret' = Returned(r.err)
                /\ UNCHANGED rt_attempt
           ELSE /\ rt_pc' = "loop"
                /\ rt_attempt' = rt_attempt + 1
                /\ UNCHANGED rt_ret
    /\ UNCHANGED <<rt_max_attempts, rt_sleeps>>
    /\ UNCHANGED notRetry

\* the loop is over: return Exception(f"max retries exceeded: {err}")
RetryExhausted ==
    /\ rt_pc = "loop"
    /\ ~RetryLoopContinues(rt_attempt)
    /\ rt_pc' = "returned"
    /\ rt_ret' = MaxRetriesExceeded(rt_err)
    /\ UNCHANGED <<rt_max_attempts, rt_attempt, rt_needs_retry, rt_err,
                   rt_outcomes, rt_sleeps>>
    /\ UNCHANGED notRetry

RetryNext ==
    \/ RetryFirstCall
    \/ RetrySleep
    \/ RetryCall
    \/ RetryExhausted

(***************************************************************************)
(*                            ConnectionPool                               *)
(*                                                                         *)
(* Threads call the pooled lookups of one pool.  Each `with self._lock`    *)
(* block is one step: the lock is held from its first to its last          *)
(* statement, the channel creation of the second block included.           *)
(***************************************************************************)
PoolThreads  == 2   \* bound: threads using the pool
MaxPoolCalls == 2   \* bound: calls in one run, by all threads

\* retries=3 (connection.py:11)
PoolRetries == 3

PThreads == 1..PoolThreads

\* node addresses (non-empty, non-blank)
Addrs == {"node1:5500", "node2:5500"}

\* conn is None / self._connections.get(addr) found nothing
NoConn == 0

\* the pooled lookups
PooledOps == {"_get_connection", "create_client", "create_ipc_client"}

\* how grpc.channel_ready_future(conn).result(timeout=5) ends
ProbeOutcomes == {"ready", "timeout", "error"}

\* no close() yet
NoClose == [attempted |-> {}, errors |-> {}, raised |-> FALSE]

PoolStart ==
    /\ cp_connections = [a \in Addrs |-> NoConn]
    /\ cp_chan = <<>>
    /\ cp_pc = [t \in PThreads |-> "idle"]
    /\ cp_op = [t \in PThreads |-> "none"]
    /\ cp_addr = [t \in PThreads |-> "none"]
    /\ cp_retry = [t \in PThreads |-> 0]
    /\ cp_got = [t \in PThreads |-> NoConn]
    /\ cp_via = [t \in PThreads |-> "none"]
    /\ cp_raised = [t \in PThreads |-> "none"]
    /\ cp_stale = [t \in PThreads |-> FALSE]
    /\ cp_calls = 0
    /\ cp_pooled = [t \in PThreads |-> TRUE]
    /\ cp_closer = [t \in PThreads |-> NoConn]
    /\ cp_probe = [t \in PThreads |-> "none"]
    /\ cp_closed = NoClose

PoolIdle == PoolStart

\* create_client and create_ipc_client both run their _create under
\* _retry_with_backoff; the two _create differ by the stub class only
Runs(op) == IF op = "_get_connection" THEN "_get_connection" ELSE "_create"

\* the fields of a thread at the start of a call: _retry_with_backoff starts
\* with current_retry = 0
CallStarts(t, op, a, pooled, pc) ==
    /\ cp_pc[t] \in {"idle", "done", "released"}
    /\ cp_calls < MaxPoolCalls
    /\ cp_calls' = cp_calls + 1
    /\ cp_pc' = [cp_pc EXCEPT ![t] = pc]
    /\ cp_op' = [cp_op EXCEPT ![t] = Runs(op)]
    /\ cp_addr' = [cp_addr EXCEPT ![t] = a]
    /\ cp_pooled' = [cp_pooled EXCEPT ![t] = pooled]
    /\ cp_retry' = [cp_retry EXCEPT ![t] = 0]
    /\ cp_got' = [cp_got EXCEPT ![t] = NoConn]
    /\ cp_closer' = [cp_closer EXCEPT ![t] = NoConn]
    /\ cp_via' = [cp_via EXCEPT ![t] = "none"]
    /\ cp_probe' = [cp_probe EXCEPT ![t] = "none"]
    /\ cp_raised' = [cp_raised EXCEPT ![t] = "none"]
    /\ cp_stale' = [cp_stale EXCEPT ![t] = FALSE]
    /\ UNCHANGED <<cp_connections, cp_chan, cp_closed>>
    /\ UNCHANGED notPool

\* a thread, free or back from its last call, calls op(addr) (create_client
\* and create_ipc_client with pooled = True)
PoolCall(t, op, a) ==
    /\ op \in PooledOps
    /\ CallStarts(t, op, a, TRUE, "check1")

\* (mutant) a closer is handed out for pooled channels too
ClientCloserAlways(pooled, conn) == conn

\* the closer create_client / create_ipc_client return with the stub: None
\* when pooled, lambda: conn.close() otherwise (connection.py:52, 57, 73, 78)
ClientCloser(pooled, conn) == IF pooled THEN NoConn ELSE conn

\* _get_connection returns the channel alone
CloserOf(op, pooled, conn) ==
    IF op = "_get_connection" THEN NoConn ELSE ClientCloser(pooled, conn)

\* _get_connection, first block (connection.py:83-86)
GetConnectionFirst(t) ==
    /\ cp_pc[t] = "check1"
    /\ IF cp_connections[cp_addr[t]] # NoConn
       THEN /\ cp_got' = [cp_got EXCEPT ![t] = cp_connections[cp_addr[t]]]
            /\ cp_closer' = [cp_closer EXCEPT ![t] =
                  CloserOf(cp_op[t], cp_pooled[t], cp_connections[cp_addr[t]])]
            /\ cp_via' = [cp_via EXCEPT ![t] = "first block"]
            /\ cp_pc' = [cp_pc EXCEPT ![t] = "done"]
            /\ cp_retry' = [cp_retry EXCEPT ![t] = 0]
       ELSE /\ cp_pc' = [cp_pc EXCEPT ![t] = "check2"]
            /\ UNCHANGED <<cp_got, cp_closer, cp_via, cp_retry>>
    /\ UNCHANGED <<cp_connections, cp_chan, cp_op, cp_addr, cp_raised,
                   cp_stale, cp_calls, cp_pooled, cp_probe, cp_closed>>
    /\ UNCHANGED notPool

\* (mutant) the second block creates without looking at the map again
NoRecheck(a) == NoConn

\* conn = self._connections.get(addr) of the second block (connection.py:89)
Recheck(a) == cp_connections[a]

\* _create_new_connection (connection.py:98-118): the channel it returns,
\* given how the readiness probe ended; NoConn stands for the SDKError it
\* raises after closing the channel
NewChannelId == Len(cp_chan) + 1

\* (mutant) a probe that times out fails the connection like any other error
create_new_connection_strict(outcome) ==
    IF outcome = "ready" THEN NewChannelId ELSE NoConn

create_new_connection(outcome) ==
    IF outcome \in {"ready", "timeout"} THEN NewChannelId ELSE NoConn

\* the channel grpc.insecure_channel(addr) made, as the caller gets it
NewChannel(a, pooled) == [addr |-> a, state |-> "open", pooled |-> pooled]

\* what _retry_with_backoff does with an exception of the creation step
\* (connection.py:29-41): the next value of current_retry, and whether the
\* loop goes on
RetriesExhausted(t) == cp_retry[t] + 1 >= PoolRetries

\* the creation step raised SDKError("Failed to connect ..."): _get_connection
\* called directly lets it out, _retry_with_backoff counts it and tries again
\* or gives up
CreationRaised(t) ==
    IF cp_op[t] = "_get_connection"
    THEN /\ cp_raised' = [cp_raised EXCEPT ![t] = "Failed to connect"]
         /\ cp_pc' = [cp_pc EXCEPT ![t] = "done"]
         /\ UNCHANGED cp_retry
    ELSE /\ cp_retry' = [cp_retry EXCEPT ![t] = IF RetriesExhausted(t) THEN 0 ELSE @ + 1]
         /\ IF RetriesExhausted(t)
            THEN /\ cp_raised' = [cp_raised EXCEPT ![t] = "failed after attempts"]
                 /\ cp_pc' = [cp_pc EXCEPT ![t] = "done"]
            ELSE /\ cp_pc' = [cp_pc EXCEPT ![t] = "backoff"]
                 /\ UNCHANGED cp_raised

\* _get_connection, second block (connection.py:88-96), the map already
\* holding the address
GetConnectionSecondHit(t) ==
    /\ cp_pc[t] = "check2"
    /\ Recheck(cp_addr[t]) # NoConn
    /\ cp_got' = [cp_got EXCEPT ![t] = Recheck(cp_addr[t])]
    /\ cp_closer' = [cp_closer EXCEPT ![t] =
                        CloserOf(cp_op[t], cp_pooled[t], Recheck(cp_addr[t]))]
    /\ cp_via' = [cp_via EXCEPT ![t] = "second block"]
    /\ cp_pc' = [cp_pc EXCEPT ![t] = "done"]
    /\ cp_retry' = [cp_retry EXCEPT ![t] = 0]
    /\ UNCHANGED <<cp_connections, cp_chan, cp_op, cp_addr, cp_raised,
                   cp_stale, cp_calls, cp_pooled, cp_probe, cp_closed>>
    /\ UNCHANGED notPool

\* _get_connection, second block, the map not holding the address: the
\* channel is created under the lock and stored
GetConnectionCreate(t) ==
    /\ cp_pc[t] = "check2"
    /\ Recheck(cp_addr[t]) = NoConn
    /\ \E outcome \in ProbeOutcomes :
        LET conn == create_new_connection(outcome) IN
        /\ cp_probe' = [cp_probe EXCEPT ![t] = outcome]
        /\ IF conn # NoConn
           THEN /\ cp_chan' = Append(cp_chan, NewChannel(cp_addr[t], TRUE))
                /\ cp_connections' = [cp_connections EXCEPT ![cp_addr[t]] = conn]
                /\ cp_got' = [cp_got EXCEPT ![t] = conn]
                /\ cp_closer' = [cp_closer EXCEPT ![t] =
                                    CloserOf(cp_op[t], cp_pooled[t], conn)]
                /\ cp_via' = [cp_via EXCEPT ![t] = "created"]
                /\ cp_pc' = [cp_pc EXCEPT ![t] = "done"]
                /\ cp_retry' = [cp_retry EXCEPT ![t] = 0]
                /\ UNCHANGED cp_raised
           ELSE \* conn.close(); raise SDKError("Failed to connect ...")
                /\ UNCHANGED <<cp_chan, cp_connections, cp_got, cp_closer, cp_via>>
                /\ CreationRaised(t)
    /\ UNCHANGED <<cp_op, cp_addr, cp_stale, cp_calls, cp_pooled, cp_closed>>
    /\ UNCHANGED notPool

\* _retry_with_backoff: time.sleep(current_delay), then func again
PoolBackoff(t) ==
    /\ cp_pc[t] = "backoff"
    /\ cp_pc' = [cp_pc EXCEPT ![t] = IF cp_pooled[t] THEN "check1" ELSE "create"]
    /\ UNCHANGED <<cp_connections, cp_chan, cp_op, cp_addr, cp_retry, cp_got,
                   cp_via, cp_raised, cp_stale, cp_calls, cp_pooled, cp_closer,
                   cp_probe, cp_closed>>
    /\ UNCHANGED notPool

\* create_client / create_ipc_client with pooled = False: _create goes
\* straight to _create_new_connection (connection.py:54, 75)
UnpooledOps == {"create_client", "create_ipc_client"}

UnpooledCall(t, op, a) ==
    /\ op \in UnpooledOps
    /\ CallStarts(t, op, a, FALSE, "create")

\* conn = self._create_new_connection(addr); return stub, lambda: conn.close(),
\* None (connection.py:54-57, 75-78): the map is not touched
UnpooledCreate(t) ==
    /\ cp_pc[t] = "create"
    /\ \E outcome \in ProbeOutcomes :
        LET conn == create_new_connection(outcome) IN
        /\ cp_probe' = [cp_probe EXCEPT ![t] = outcome]
        /\ IF conn # NoConn
           THEN /\ cp_chan' = Append(cp_chan, NewChannel(cp_addr[t], FALSE))
                /\ cp_got' = [cp_got EXCEPT ![t] = conn]
                /\ cp_closer' = [cp_closer EXCEPT ![t] =
                                    CloserOf(cp_op[t], cp_pooled[t], conn)]
                /\ cp_via' = [cp_via EXCEPT ![t] = "unpooled"]
                /\ cp_pc' = [cp_pc EXCEPT ![t] = "done"]
                /\ cp_retry' = [cp_retry EXCEPT ![t] = 0]
                /\ UNCHANGED cp_raised
           ELSE /\ UNCHANGED <<cp_chan, cp_got, cp_closer, cp_via>>
                /\ CreationRaised(t)
    /\ UNCHANGED <<cp_connections, cp_op, cp_addr, cp_stale, cp_calls, cp_pooled,
                   cp_closed>>
    /\ UNCHANGED notPool

\* the caller calls the closer it got: lambda: conn.close()
CallCloser(t) ==
    /\ cp_pc[t] = "done"
    /\ cp_closer[t] # NoConn
    /\ cp_chan' = [cp_chan EXCEPT ![cp_closer[t]].state = "closed by closer"]
    /\ cp_pc' = [cp_pc EXCEPT ![t] = "released"]
    /\ UNCHANGED <<cp_connections, cp_op, cp_addr, cp_retry, cp_got, cp_via,
                   cp_raised, cp_stale, cp_calls, cp_pooled, cp_closer, cp_probe,
                   cp_closed>>
    /\ UNCHANGED notPool

\* ConnectionPool.close (connection.py:120-131): conn.close() is tried on
\* every pooled channel, the ones that raise are collected, the map is
\* cleared and one SDKError is raised if any was collected (a close() of an
\* empty pool changes nothing)
PooledChannels == {cp_connections[a] : a \in Addrs} \ {NoConn}

\* (mutant) the map is cleared of the channels that closed only
MapKeepsFailed(errors) ==
    [a \in Addrs |-> IF cp_connections[a] \in errors
                     THEN cp_connections[a] ELSE NoConn]

\* self._connections.clear()
MapAfterClose(errors) == [a \in Addrs |-> NoConn]

PoolClose ==
    /\ PooledChannels # {}
    /\ \E errors \in SUBSET PooledChannels :
        /\ cp_chan' = [i \in DOMAIN cp_chan |->
                         IF i \in PooledChannels
                         THEN [cp_chan[i] EXCEPT !.state =
                                 IF i \in errors THEN "close failed" ELSE "closed"]
                         ELSE cp_chan[i]]
        /\ cp_connections' = MapAfterClose(errors)
        /\ cp_closed' = [attempted |-> PooledChannels, errors |-> errors,
                         raised |-> errors # {}]
    /\ cp_stale' = [t \in PThreads |-> cp_pooled[t] /\ cp_pc[t] # "idle"]
    /\ UNCHANGED <<cp_pc, cp_op, cp_addr, cp_retry, cp_got, cp_via, cp_raised,
                   cp_calls, cp_pooled, cp_closer, cp_probe>>
    /\ UNCHANGED notPool

PoolNext ==
    \/ \E t \in PThreads, op \in PooledOps, a \in Addrs : PoolCall(t, op, a)
    \/ \E t \in PThreads, op \in UnpooledOps, a \in Addrs : UnpooledCall(t, op, a)
    \/ \E t \in PThreads : GetConnectionFirst(t)
    \/ \E t \in PThreads : GetConnectionSecondHit(t)
    \/ \E t \in PThreads : GetConnectionCreate(t)
    \/ \E t \in PThreads : UnpooledCreate(t)
    \/ \E t \in PThreads : PoolBackoff(t)
    \/ \E t \in PThreads : CallCloser(t)
    \/ PoolClose

(***************************************************************************)
(*                           Upload pipeline                               *)
(*                                                                         *)
(* IPC.upload of one file: reserve the file on-chain (createFile), read    *)
(* the chunks in order, push their blocks concurrently to the node, commit *)
(* the file (commitFile).  The pipeline itself is described by spec.md 4.8 *)
(* and 5; commit_file is the binding of storage.py:284-321.                *)
(***************************************************************************)
MaxChunks      == 2     \* bound: chunks of the file
BlocksPerChunk == 2     \* bound: blocks of one chunk
MaxConcurrency == 2     \* bound: option max_concurrency

Chunks == 0..(MaxChunks - 1)
Blocks == 0..(BlocksPerChunk - 1)

AllBlocks(state) == [c \in Chunks |-> [b \in Blocks |-> state]]

\* the inputs: the chunk CIDs rise or fall with the chunk index
Inputs == {[c \in Chunks |-> c + 1], [c \in Chunks |-> MaxChunks - c]}

\* no root built yet
NoRoot == [codec |-> "none", links |-> <<>>]

\* (mutant) the new link goes in front
add_link_first(links, chunk_cid) == <<chunk_cid>> \o links

\* DAGRoot.add_link (dag.py:62-84): self.links.append(...)
add_link(links, chunk_cid) == Append(links, chunk_cid)

\* DAGRoot.build (dag.py:86-137): DAGError without a link; else the CID of
\* the only link, or the CID of the dag-pb node (without ipld: the hash of
\* the joined CIDs) over the links in list order
build(links) ==
    IF Len(links) = 0
    THEN [codec |-> "DAGError: no chunks added", links |-> <<>>]
    ELSE IF Len(links) = 1
    THEN [codec |-> "link", links |-> links]
    ELSE [codec |-> "dag-pb", links |-> links]

UploadStart ==
    /\ up_total \in 1..MaxChunks
    /\ up_max_concurrency \in 1..MaxConcurrency
    /\ up_phase = "start"
    /\ up_read = 0
    /\ up_block = AllBlocks("unread")
    /\ up_cancelled = FALSE
    /\ up_at_cancel = AllBlocks("unread")
    /\ up_file \in {"none", "committed"}
    /\ up_commits = 0
    /\ up_result = "none"
    /\ up_input \in Inputs
    /\ up_links = <<>>
    /\ up_root = NoRoot
    /\ up_overtaken = FALSE

UploadIdle ==
    /\ up_total = 1
    /\ up_max_concurrency = 1
    /\ up_phase = "start"
    /\ up_read = 0
    /\ up_block = AllBlocks("unread")
    /\ up_cancelled = FALSE
    /\ up_at_cancel = AllBlocks("unread")
    /\ up_file = "none"
    /\ up_commits = 0
    /\ up_result = "none"
    /\ up_input = [c \in Chunks |-> c + 1]
    /\ up_links = <<>>
    /\ up_root = NoRoot
    /\ up_overtaken = FALSE

\* the blocks of the chunks read so far that are in the given state
BlocksIn(state) ==
    {<<c, b>> \in Chunks \X Blocks : c < up_read /\ up_block[c][b] = state}

InFlight == BlocksIn("inflight")

\* every chunk of the file was read and every block of every chunk is ACKed
AllAcked ==
    /\ up_read = up_total
    /\ \A c \in Chunks, b \in Blocks : c < up_total => up_block[c][b] = "acked"

\* phase 2, reserve on-chain: createFile and its receipt; the contract
\* reverts with FileAlreadyExists when the name is taken
UploadCreateFile ==
    /\ up_phase = "start"
    /\ ~up_cancelled
    /\ IF up_file = "none"
       THEN /\ up_file' = "reserved"
            /\ up_phase' = "streaming"
            /\ UNCHANGED up_result
       ELSE /\ up_phase' = "failed"
            /\ up_result' = "FILE_EXISTS"
            /\ UNCHANGED up_file
    /\ UNCHANGED <<up_total, up_max_concurrency, up_read, up_block, up_cancelled,
                   up_at_cancel, up_commits>>
    /\ UNCHANGED <<up_input, up_links, up_root, up_overtaken>>
    /\ UNCHANGED notUpload

\* phase 3, stream chunks: the next chunk is read and gets the next index;
\* its blocks are built and wait to be sent, and its link is added to the
\* file-level root (3d)
UploadReadChunk ==
    /\ up_phase = "streaming"
    /\ ~up_cancelled
    /\ BlocksIn("failed") = {}
    /\ up_read < up_total
    /\ up_block' = [up_block EXCEPT ![up_read] = [b \in Blocks |-> "unsent"]]
    /\ up_read' = up_read + 1
    /\ up_links' = add_link(up_links, up_input[up_read])
    /\ UNCHANGED <<up_total, up_max_concurrency, up_phase, up_cancelled,
                   up_at_cancel, up_file, up_commits, up_result>>
    /\ UNCHANGED <<up_input, up_root, up_overtaken>>
    /\ UNCHANGED notUpload

\* (mutant) a worker that does not look at the number of writes in flight
StartsUncapped == ~up_cancelled /\ BlocksIn("failed") = {}

\* (mutant) a worker that does not look at the cancellation token
StartsRegardless ==
    /\ BlocksIn("failed") = {}
    /\ Cardinality(InFlight) < up_max_concurrency

\* a worker may take the next block: the upload is neither cancelled nor
\* failing, and a slot is free
CanStartBlock ==
    /\ ~up_cancelled
    /\ BlocksIn("failed") = {}
    /\ Cardinality(InFlight) < up_max_concurrency

\* phase 4, a worker signs a block and opens its FileUploadBlock stream
UploadStartBlock(c, b) ==
    /\ up_phase = "streaming"
    /\ c < up_read
    /\ up_block[c][b] = "unsent"
    /\ CanStartBlock
    /\ up_block' = [up_block EXCEPT ![c][b] = "inflight"]
    /\ UNCHANGED <<up_total, up_max_concurrency, up_phase, up_read, up_cancelled,
                   up_at_cancel, up_file, up_commits, up_result>>
    /\ UNCHANGED <<up_input, up_links, up_root, up_overtaken>>
    /\ UNCHANGED notUpload

\* the ACK of block b completes chunk c while a chunk read before it still
\* has a block that is not ACKed
Overtakes(c, b) ==
    /\ \A b2 \in Blocks \ {b} : up_block[c][b2] = "acked"
    /\ \E c2 \in Chunks, b2 \in Blocks : c2 < c /\ up_block[c2][b2] # "acked"

\* the node ACKs the block; the write in flight completes also when the
\* upload was cancelled meanwhile
UploadAckBlock(c, b) ==
    /\ up_phase = "streaming"
    /\ c < up_read
    /\ up_block[c][b] = "inflight"
    /\ up_block' = [up_block EXCEPT ![c][b] = "acked"]
    /\ up_overtaken' = (up_overtaken \/ Overtakes(c, b))
    /\ UNCHANGED <<up_total, up_max_concurrency, up_phase, up_read, up_cancelled,
                   up_at_cancel, up_file, up_commits, up_result>>
    /\ UNCHANGED <<up_input, up_links, up_root>>
    /\ UNCHANGED notUpload

\* the stream of a block fails for good (the local retries are used up)
UploadBlockFails(c, b) ==
    /\ up_phase = "streaming"
    /\ c < up_read
    /\ up_block[c][b] = "inflight"
    /\ up_block' = [up_block EXCEPT ![c][b] = "failed"]
    /\ UNCHANGED <<up_total, up_max_concurrency, up_phase, up_read, up_cancelled,
                   up_at_cancel, up_file, up_commits, up_result>>
    /\ UNCHANGED <<up_input, up_links, up_root, up_overtaken>>
    /\ UNCHANGED notUpload

\* a block failed and the other writes in flight are over: upload() fails
\* with the transport error, the file stays reserved
UploadFailed ==
    /\ up_phase = "streaming"
    /\ ~up_cancelled
    /\ BlocksIn("failed") # {}
    /\ InFlight = {}
    /\ up_phase' = "failed"
    /\ up_result' = "TRANSPORT"
    /\ UNCHANGED <<up_total, up_max_concurrency, up_read, up_block, up_cancelled,
                   up_at_cancel, up_file, up_commits>>
    /\ UNCHANGED <<up_input, up_links, up_root, up_overtaken>>
    /\ UNCHANGED notUpload

\* (mutant) the commit waits for the chunks to be read, not for their ACKs
CommitAfterRead == ~up_cancelled /\ up_read = up_total /\ InFlight = {}

\* commitFile may be issued
CommitReady == ~up_cancelled /\ AllAcked

\* phase 5, commit: commitFile(bucket, name, totalEncodedSize, rootCID) and
\* its receipt (commit_file, storage.py:284-321)
UploadCommit ==
    /\ up_phase = "streaming"
    /\ CommitReady
    /\ up_commits' = up_commits + 1
    /\ up_file' = "committed"
    /\ up_phase' = "committed"
    /\ up_result' = "ok"
    /\ up_root' = build(up_links)
    /\ UNCHANGED <<up_total, up_max_concurrency, up_read, up_block, up_cancelled,
                   up_at_cancel>>
    /\ UNCHANGED <<up_input, up_links, up_overtaken>>
    /\ UNCHANGED notUpload

\* the caller cancels the context while the blocks are streamed
UploadCancel ==
    /\ up_phase = "streaming"
    /\ ~up_cancelled
    /\ up_cancelled' = TRUE
    /\ up_at_cancel' = up_block
    /\ UNCHANGED <<up_total, up_max_concurrency, up_phase, up_read, up_block,
                   up_file, up_commits, up_result>>
    /\ UNCHANGED <<up_input, up_links, up_root, up_overtaken>>
    /\ UNCHANGED notUpload

\* the workers are out: upload() returns CANCELLED and tells the caller that
\* the file stays reserved
UploadCancelled ==
    /\ up_phase = "streaming"
    /\ up_cancelled
    /\ InFlight = {}
    /\ up_phase' = "cancelled"
    /\ up_result' = "CANCELLED, file reserved"
    /\ UNCHANGED <<up_total, up_max_concurrency, up_read, up_block, up_cancelled,
                   up_at_cancel, up_file, up_commits>>
    /\ UNCHANGED <<up_input, up_links, up_root, up_overtaken>>
    /\ UNCHANGED notUpload

UploadNext ==
    \/ UploadCreateFile
    \/ UploadReadChunk
    \/ \E c \in Chunks, b \in Blocks : UploadStartBlock(c, b)
    \/ \E c \in Chunks, b \in Blocks : UploadAckBlock(c, b)
    \/ \E c \in Chunks, b \in Blocks : UploadBlockFails(c, b)
    \/ UploadFailed
    \/ UploadCommit
    \/ UploadCancel
    \/ UploadCancelled

(***************************************************************************)
(*                               Splitter                                  *)
(*                                                                         *)
(* private/encryption/splitter.py: an iterator that reads block_size bytes *)
(* at a time and seals each block with the info "block_<counter>".         *)
(***************************************************************************)
MaxSourceLen      == 3   \* bound: bytes of a source
MaxBlockSize      == 2   \* bound: block_size
MaxAdvances       == 5   \* bound: calls of next_bytes in one run
MaxSplitterResets == 1   \* bound: calls of reset in one run

Bytes == {0, 1}

Sources == UNION {[1..n -> Bytes] : n \in 0..MaxSourceLen}

ReaderKinds == {"seekable", "no seek", "seek raises"}

\* no reset yet
NoReset == [called |-> FALSE, new_reader |-> FALSE, seeked |-> FALSE,
            before |-> 0, after |-> 0, raised |-> FALSE]

\* Splitter.__init__ (splitter.py:9-14)
SplitterStart ==
    /\ sp_source \in Sources
    /\ sp_kind \in ReaderKinds
    /\ sp_pos = 0
    /\ sp_block_size \in 1..MaxBlockSize
    /\ sp_key_ok \in BOOLEAN
    /\ sp_counter = 0
    /\ sp_eof_reached = FALSE
    /\ sp_results = <<>>
    /\ sp_nreads = 0
    /\ sp_start = 0
    /\ sp_calls = 0
    /\ sp_resets = 0
    /\ sp_last_reset = NoReset

SplitterIdle ==
    /\ sp_source = <<>>
    /\ sp_kind = "seekable"
    /\ sp_pos = 0
    /\ sp_block_size = 1
    /\ sp_key_ok = TRUE
    /\ sp_counter = 0
    /\ sp_eof_reached = FALSE
    /\ sp_results = <<>>
    /\ sp_nreads = 0
    /\ sp_start = 0
    /\ sp_calls = 0
    /\ sp_resets = 0
    /\ sp_last_reset = NoReset

\* reader.read(n) at position pos: up to n bytes, fewer at the end only
Read(source, pos, n) ==
    SubSeq(source, pos + 1, IF pos + n < Len(source) THEN pos + n ELSE Len(source))

\* return None
EndOfStream == [kind |-> "None", data |-> <<>>, info |-> -1]

\* raise Exception(f"splitter error: ...")
SplitterError == [kind |-> "splitter error", data |-> <<>>, info |-> -1]

\* encrypt(key, data, info): the sealed block, which opens to data under the
\* key derived with info
encrypt(data, info) == [kind |-> "sealed", data |-> data, info |-> info]

\* (mutant) the counter is raised before the info is formed
info_string_after(counter) == counter + 1

\* info_string = f"block_{self.counter}" (splitter.py:27): the number in it
info_string(counter) == counter

\* (mutant) the empty read does not set the flag
EofForgotten == FALSE

\* self._eof_reached = True (splitter.py:24)
EofAfterEmptyRead == TRUE

\* Splitter.next_bytes (splitter.py:16-37)
next_bytes ==
    /\ sp_calls < MaxAdvances
    /\ sp_calls' = sp_calls + 1
    /\ IF sp_eof_reached
       THEN /\ sp_results' = Append(sp_results, EndOfStream)
            /\ UNCHANGED <<sp_pos, sp_nreads, sp_eof_reached, sp_counter>>
       ELSE LET data == Read(sp_source, sp_pos, sp_block_size) IN
            /\ sp_pos' = sp_pos + Len(data)
            /\ sp_nreads' = sp_nreads + 1
            /\ IF data = <<>>
               THEN /\ sp_eof_reached' = EofAfterEmptyRead
                    /\ sp_results' = Append(sp_results, EndOfStream)
                    /\ UNCHANGED sp_counter
               ELSE IF sp_key_ok
               THEN /\ sp_results' = Append(sp_results,
                                        encrypt(data, info_string(sp_counter)))
                    /\ sp_counter' = sp_counter + 1
                    /\ UNCHANGED sp_eof_reached
               ELSE /\ sp_results' = Append(sp_results, SplitterError)
                    /\ UNCHANGED <<sp_counter, sp_eof_reached>>
    /\ UNCHANGED <<sp_source, sp_kind, sp_block_size, sp_key_ok, sp_start,
                   sp_resets, sp_last_reset>>
    /\ UNCHANGED notSplitter

\* Splitter.reset() (splitter.py:46-55), new_reader is None: seek(0) if the
\* reader has a seek attribute (an exception of seek goes to the caller),
\* then counter = 0 and _eof_reached = False in every case
reset ==
    /\ sp_resets < MaxSplitterResets
    /\ sp_resets' = sp_resets + 1
    /\ IF sp_kind = "seek raises"
       THEN /\ sp_last_reset' = [called |-> TRUE, new_reader |-> FALSE,
                                 seeked |-> FALSE, before |-> sp_counter,
                                 after |-> sp_counter, raised |-> TRUE]
            /\ UNCHANGED <<sp_pos, sp_counter, sp_eof_reached, sp_results,
                           sp_nreads, sp_start>>
       ELSE /\ sp_pos' = IF sp_kind = "seekable" THEN 0 ELSE sp_pos
            /\ sp_counter' = 0
            /\ sp_eof_reached' = FALSE
            /\ sp_results' = <<>>
            /\ sp_nreads' = 0
            /\ sp_start' = sp_pos'
            /\ sp_last_reset' = [called |-> TRUE, new_reader |-> FALSE,
                                 seeked |-> sp_kind = "seekable",
                                 before |-> sp_counter, after |-> 0,
                                 raised |-> FALSE]
    /\ UNCHANGED <<sp_source, sp_kind, sp_block_size, sp_key_ok, sp_calls>>
    /\ UNCHANGED notSplitter

\* Splitter.reset(new_reader): the reader is replaced by a fresh one
reset_with(source, kind) ==
    /\ sp_resets < MaxSplitterResets
    /\ sp_resets' = sp_resets + 1
    /\ sp_source' = source
    /\ sp_kind' = kind
    /\ sp_pos' = 0
    /\ sp_counter' = 0
    /\ sp_eof_reached' = FALSE
    /\ sp_results' = <<>>
    /\ sp_nreads' = 0
    /\ sp_start' = 0
    /\ sp_last_reset' = [called |-> TRUE, new_reader |-> TRUE, seeked |-> FALSE,
                         before |-> sp_counter, after |-> 0, raised |-> FALSE]
    /\ UNCHANGED <<sp_block_size, sp_key_ok, sp_calls>>
    /\ UNCHANGED notSplitter

SplitterNext ==
    \/ next_bytes
    \/ reset
    \/ \E source \in Sources, kind \in ReaderKinds : reset_with(source, kind)

(***************************************************************************)
(*                             SDK.__init__                                *)
(*                                                                         *)
(* sdk/sdk.py:172-208: the checks of the configuration, the two channels   *)
(* and the erasure coder.                                                  *)
(***************************************************************************)
MaxParity        == 3   \* bound: parity_blocks_count
MaxBlocksInChunk == 5   \* bound: streaming_max_blocks_in_chunk
MaxCloses        == 2   \* bound: calls of close() on one SDK

\* BLOCK_SIZE = 1 MiB (sdk/config.py, imported at sdk.py:16)
BLOCK_SIZE == 1048576

BlockPartSizes == {-1, 0, 1, BLOCK_SIZE, BLOCK_SIZE + 1}

KeyLengths == {0, 16, 32, 33}

\* ipc_address: not set, the address again, another address
IpcAddresses == {"unset", "same", "other"}

Configs ==
    [block_part_size : BlockPartSizes,
     key_len : KeyLengths,
     parity_blocks_count : -1..MaxParity,
     streaming_max_blocks_in_chunk : -1..MaxBlocksInChunk,
     ipc_address : IpcAddresses]

\* self.streaming_erasure_code = None
NoErasureCode == [exists |-> FALSE, data_blocks |-> 0, parity_blocks |-> 0]

\* the channels: 1 is opened for address, 2 for a different ipc_address
Channels == {1, 2}

\* close() not called
NotClosed == [c \in Channels |-> 0]

SDKStart ==
    /\ sdk_config \in Configs
    /\ sdk_state = "new"
    /\ sdk_error = "none"
    /\ sdk_conn = 0
    /\ sdk_ipc_conn = 0
    /\ sdk_open = {}
    /\ sdk_erasure = NoErasureCode
    /\ sdk_closes = NotClosed
    /\ sdk_ncloses = 0

SDKIdle ==
    /\ sdk_config = [block_part_size |-> 1, key_len |-> 0,
                     parity_blocks_count |-> 0,
                     streaming_max_blocks_in_chunk |-> 0, ipc_address |-> "unset"]
    /\ sdk_state = "new"
    /\ sdk_error = "none"
    /\ sdk_conn = 0
    /\ sdk_ipc_conn = 0
    /\ sdk_open = {}
    /\ sdk_erasure = NoErasureCode
    /\ sdk_closes = NotClosed
    /\ sdk_ncloses = 0

\* (mutant) the range check lets 0 through
BadBlockPartSizeBelowZero(size) == size < 0 \/ size > BLOCK_SIZE

\* block_part_size <= 0 or block_part_size > BLOCK_SIZE (sdk.py:186)
BadBlockPartSize(size) == size <= 0 \/ size > BLOCK_SIZE

\* len(encryption_key) != 0 and len(encryption_key) != 32 (sdk.py:199)
BadKeyLength(len) == len # 0 /\ len # 32

\* parity_blocks_count > streaming_max_blocks_in_chunk // 2 (sdk.py:202)
BadParity(parity, blocks) == parity > blocks \div 2

\* (mutant) the two arguments the other way round
ErasureCodeSwapped(data_blocks, parity_blocks) ==
    IF data_blocks <= 0 \/ parity_blocks <= 0
    THEN [exists |-> FALSE, data_blocks |-> -1, parity_blocks |-> -1]
    ELSE [exists |-> TRUE, data_blocks |-> parity_blocks,
          parity_blocks |-> data_blocks]

\* ErasureCode.__init__ (erasure_code.py:18-23); the record with -1 stands
\* for its ValueError
ErasureCode(data_blocks, parity_blocks) ==
    IF data_blocks <= 0 \/ parity_blocks <= 0
    THEN [exists |-> FALSE, data_blocks |-> -1, parity_blocks |-> -1]
    ELSE [exists |-> TRUE, data_blocks |-> data_blocks,
          parity_blocks |-> parity_blocks]

\* sdk.py:178, 205-206
StreamingErasureCode(cfg) ==
    IF cfg.parity_blocks_count > 0
    THEN ErasureCode(cfg.streaming_max_blocks_in_chunk - cfg.parity_blocks_count,
                     cfg.parity_blocks_count)
    ELSE NoErasureCode

\* self.ipc_address = config.ipc_address or config.address; the IPC stub
\* shares self.conn when the two addresses are equal (sdk.py:183, 192-195)
IpcChannel(cfg) == IF cfg.ipc_address = "other" THEN 2 ELSE 1

\* SDK.__init__ (sdk.py:172-208), in the order of its statements
SDKInit ==
    /\ sdk_state = "new"
    /\ LET cfg == sdk_config
           ec  == StreamingErasureCode(cfg)
       IN
       IF BadBlockPartSize(cfg.block_part_size)
       THEN /\ sdk_state' = "failed"
            /\ sdk_error' = "SDKError: Invalid blockPartSize"
            /\ UNCHANGED <<sdk_conn, sdk_ipc_conn, sdk_open, sdk_erasure>>
       ELSE /\ sdk_conn' = 1
            /\ sdk_ipc_conn' = IpcChannel(cfg)
            /\ sdk_open' = {1, IpcChannel(cfg)}
            /\ IF BadKeyLength(cfg.key_len)
               THEN /\ sdk_state' = "failed"
                    /\ sdk_error' = "SDKError: Encryption key length"
                    /\ UNCHANGED sdk_erasure
               ELSE IF BadParity(cfg.parity_blocks_count,
                                 cfg.streaming_max_blocks_in_chunk)
               THEN /\ sdk_state' = "failed"
                    /\ sdk_error' = "SDKError: Parity blocks count"
                    /\ UNCHANGED sdk_erasure
               ELSE IF ec.data_blocks = -1
               THEN /\ sdk_state' = "failed"
                    /\ sdk_error' = "ValueError"
                    /\ UNCHANGED sdk_erasure
               ELSE /\ sdk_state' = "constructed"
                    /\ sdk_error' = "none"
                    /\ sdk_erasure' = ec
    /\ UNCHANGED <<sdk_config, sdk_closes, sdk_ncloses>>
    /\ UNCHANGED notSDK

\* (mutant) the IPC channel is closed whether or not it is self.conn
ClosesOfBoth(conn, ipc_conn, c) ==
    (IF conn # 0 /\ conn = c THEN 1 ELSE 0)
    + (IF ipc_conn # 0 /\ ipc_conn = c THEN 1 ELSE 0)

\* how often SDK.close (sdk.py:243-248) calls close() on channel c
ClosesOf(conn, ipc_conn, c) ==
    (IF conn # 0 /\ conn = c THEN 1 ELSE 0)
    + (IF ipc_conn # 0 /\ ipc_conn # conn /\ ipc_conn = c THEN 1 ELSE 0)

\* SDK.close (sdk.py:243-248), on an SDK that was constructed
SDKClose ==
    /\ sdk_state = "constructed"
    /\ sdk_ncloses < MaxCloses
    /\ sdk_ncloses' = sdk_ncloses + 1
    /\ sdk_closes' = [c \in Channels |-> ClosesOf(sdk_conn, sdk_ipc_conn, c)]
    /\ sdk_open' = {c \in sdk_open : ClosesOf(sdk_conn, sdk_ipc_conn, c) = 0}
    /\ UNCHANGED <<sdk_config, sdk_state, sdk_error, sdk_conn, sdk_ipc_conn,
                   sdk_erasure>>
    /\ UNCHANGED notSDK

SDKNext == SDKInit \/ SDKClose

(***************************************************************************)
(*                             DAG builder                                 *)
(*                                                                         *)
(* sdk/dag.py: build_dag slices the bytes of one chunk into leaf blocks    *)
(* and links them under the chunk's root; DAGRoot collects the chunks of a *)
(* file.  A CID is modelled by what it is the hash of.                     *)
(***************************************************************************)
MaxDagLen       == 4   \* bound: bytes one reader yields
MaxDagBlockSize == 3   \* bound: block_size
MaxDagChunks    == 1   \* bound: calls of build_dag in one run

\* tag, length and UnixFS header around the payload of a leaf
\* (dag.py:238-244): 0a LL 08 02 22 LL, for a payload shorter than 128 bytes
PbLeafFraming == 6

\* the same for an empty payload: 0a 02 08 02
PbEmptyLeaf == 4

DagInputs == UNION {[1..n -> Bytes] : n \in 0..MaxDagLen}

\* no ChunkDAG yet
NoChunk == [status |-> "none", cid |-> <<>>, raw_data_size |-> 0,
            encoded_size |-> 0, blocks |-> <<>>]

\* raise DAGError(...) in build_dag
ChunkError(msg) == [status |-> msg, cid |-> <<>>, raw_data_size |-> 0,
                    encoded_size |-> 0, blocks |-> <<>>]

\* DAGRoot.build not called yet
RootNotBuilt == [codec |-> "not built", links |-> <<>>]

DagStart ==
    /\ dag_ipld \in BOOLEAN
    /\ dag_block_size \in 1..MaxDagBlockSize
    /\ dag_has_key \in BOOLEAN
    /\ dag_data = <<>>
    /\ dag_chunk = NoChunk
    /\ dag_added = FALSE
    /\ dag_links = <<>>
    /\ dag_root = RootNotBuilt
    /\ dag_calls = 0

DagIdle ==
    /\ dag_ipld = TRUE
    /\ dag_block_size = 1
    /\ dag_has_key = FALSE
    /\ dag_data = <<>>
    /\ dag_chunk = NoChunk
    /\ dag_added = FALSE
    /\ dag_links = <<>>
    /\ dag_root = RootNotBuilt
    /\ dag_calls = 0

\* encrypt(enc_key, data, b"dag_encryption"): nonce, ciphertext, tag
DagEncrypt(data) ==
    <<"nonce">> \o [i \in 1..Len(data) |-> <<"sealed", data[i]>>] \o <<"tag">>

\* (mutant) the check for an empty read is missing
NothingReadNever(data) == FALSE

\* if not data (dag.py:165)
NothingRead(data) == data = <<>>

\* (mutant) every block after the first starts one byte early
BlockDataEarly(data, block_size, i) ==
    LET offset == IF i = 1 THEN 0 ELSE (i - 1) * block_size - 1
        far == i * block_size
        end_offset == IF far < Len(data) THEN far ELSE Len(data)
    IN  SubSeq(data, offset + 1, end_offset)

\* data[offset:end_offset] of the i-th pass of the loop (dag.py:188-190)
BlockData(data, block_size, i) ==
    LET offset == (i - 1) * block_size
        far == offset + block_size
        end_offset == IF far < Len(data) THEN far ELSE Len(data)
    IN  SubSeq(data, offset + 1, end_offset)

\* passes of while offset < len(data) (dag.py:188-211)
BlockCount(data, block_size) == (Len(data) + block_size - 1) \div block_size

\* _create_unixfs_file_node (dag.py:228-257): the CID and the encoded bytes
\* of the leaf holding payload; without the libraries the bytes themselves
\* under a digest of them
UnixfsFileNode(payload, ipld) ==
    LET encoded == [framed |-> ipld, payload |-> payload]
    IN  [cid |-> [codec |-> IF ipld THEN "dag-pb" ELSE "digest",
                  links |-> <<>>, over |-> <<encoded>>],
         data |-> encoded]

\* len(block.data)
EncodedLen(encoded) ==
    IF ~encoded.framed THEN Len(encoded.payload)
    ELSE IF Len(encoded.payload) = 0 THEN PbEmptyLeaf
    ELSE Len(encoded.payload) + PbLeafFraming

RECURSIVE SumEncoded(_)
SumEncoded(blocks) ==
    IF Len(blocks) = 0 THEN 0
    ELSE EncodedLen(blocks[1].data) + SumEncoded(Tail(blocks))

\* _create_chunk_dag_root_node (dag.py:259-302): the CID of the dag-pb node
\* over pb_links; without the libraries a digest of the blocks' bytes joined
\* in order
ChunkDagRootNode(blocks, ipld) ==
    IF ipld
    THEN [codec |-> "dag-pb",
          links |-> [i \in 1..Len(blocks) |-> blocks[i].cid],
          over |-> <<>>]
    ELSE [codec |-> "digest", links |-> <<>>,
          over |-> [i \in 1..Len(blocks) |-> blocks[i].data]]

\* build_dag (dag.py:162-226)
build_dag(read, block_size, has_key, ipld) ==
    IF NothingRead(read)
    THEN ChunkError("DAGError: failed to build chunk DAG: empty data")
    ELSE
    LET data == IF has_key THEN DagEncrypt(read) ELSE read
    IN  IF Len(data) <= block_size
        THEN LET leaf == UnixfsFileNode(data, ipld)
             IN  [status |-> "ok", cid |-> leaf.cid,
                  \* node_sizes(encoded_data) (dag.py:304-330)
                  raw_data_size |-> IF ipld THEN Len(data)
                                    ELSE EncodedLen(leaf.data),
                  encoded_size |-> EncodedLen(leaf.data),
                  blocks |-> <<leaf>>]
        ELSE LET blocks ==
                     [i \in 1..BlockCount(data, block_size) |->
                        UnixfsFileNode(BlockData(data, block_size, i), ipld)]
             IN  [status |-> "ok", cid |-> ChunkDagRootNode(blocks, ipld),
                  raw_data_size |-> Len(read),
                  encoded_size |-> SumEncoded(blocks),
                  blocks |-> blocks]

\* chunk_dag = build_dag(ctx, reader, block_size, enc_key)
DagBuildChunk ==
    /\ dag_calls < MaxDagChunks
    /\ \E read \in DagInputs :
        /\ dag_data' = read
        /\ dag_chunk' = build_dag(read, dag_block_size, dag_has_key, dag_ipld)
    /\ dag_added' = FALSE
    /\ dag_calls' = dag_calls + 1
    /\ UNCHANGED <<dag_ipld, dag_block_size, dag_has_key, dag_links, dag_root>>
    /\ UNCHANGED notDag

\* dag_root.add_link(chunk_dag.cid, ...)
DagAddLink ==
    /\ dag_chunk.status = "ok"
    /\ ~dag_added
    /\ dag_links' = add_link(dag_links, dag_chunk.cid)
    /\ dag_added' = TRUE
    /\ UNCHANGED <<dag_ipld, dag_block_size, dag_has_key, dag_data, dag_chunk,
                   dag_root, dag_calls>>
    /\ UNCHANGED notDag

\* root_cid = dag_root.build()
DagRootBuild ==
    /\ dag_root' = build(dag_links)
    /\ dag_root' # dag_root
    /\ UNCHANGED <<dag_ipld, dag_block_size, dag_has_key, dag_data, dag_chunk,
                   dag_added, dag_links, dag_calls>>
    /\ UNCHANGED notDag

DagNext == DagBuildChunk \/ DagAddLink \/ DagRootBuild

(***************************************************************************)
(*                              ErasureCode                                *)
(*                                                                         *)
(* sdk/erasure_code.py: encode cuts the data into k data shards and adds   *)
(* m parity shards, one Reed-Solomon codeword per byte column;             *)
(* extract_data_blocks decodes the columns with the missing shards as      *)
(* erasures.  RSCodec is the reedsolo library: a systematic Reed-Solomon   *)
(* code, here over the integers modulo FieldSize instead of GF(2^8).       *)
(***************************************************************************)
MaxDataBlocks   == 2   \* bound: k
MaxParityBlocks == 2   \* bound: m
MaxErasureLen   == 3   \* bound: len(data)

\* the symbols of the code: 0..FieldSize-1, a prime above every k + m here
FieldSize == 7

Symbols == 0..(FieldSize - 1)

ErasureInputs == UNION {[1..n -> Bytes] : n \in 0..MaxErasureLen}

\* 1 / a in the field
FieldInverse(a) == CHOOSE x \in Symbols : (a * x) % FieldSize = 1

\* the value at x of the polynomial through (points[j], values[j]): Lagrange
RECURSIVE LagrangeTerm(_, _, _, _)
LagrangeTerm(points, j, l, x) ==
    IF l > Len(points) THEN 1
    ELSE IF l = j THEN LagrangeTerm(points, j, l + 1, x)
    ELSE ((x - points[l] + FieldSize)
            * FieldInverse((points[j] - points[l] + FieldSize) % FieldSize)
            * LagrangeTerm(points, j, l + 1, x)) % FieldSize

RECURSIVE Interpolate(_, _, _, _)
Interpolate(points, values, j, x) ==
    IF j > Len(points) THEN 0
    ELSE (values[j] * LagrangeTerm(points, j, 1, x)
            + Interpolate(points, values, j + 1, x)) % FieldSize

\* RSCodec(nsym).encode(message): the message and nsym parity symbols
rs_encode(message, nsym) ==
    LET k == Len(message)
        points == [i \in 1..k |-> i - 1]
    IN  message \o [r \in 1..nsym |-> Interpolate(points, message, 1, k + r - 1)]

\* ReedSolomonError (no symbol is negative)
RSError == <<-1>>

\* the first n elements of a set of numbers, ascending
RECURSIVE Ascending(_, _)
Ascending(S, n) ==
    IF n = 0 \/ S = {} THEN <<>>
    ELSE LET least == CHOOSE x \in S : \A y \in S : x <= y
         IN  <<least>> \o Ascending(S \ {least}, n - 1)

\* (mutant) nsym erasures are too many already
TooManyErasuresAtNsym(erasures, nsym) == erasures >= nsym

\* reedsolo: "Too many erasures to correct"
TooManyErasures(erasures, nsym) == erasures > nsym

\* RSCodec(nsym).decode(stripe, erase_pos=erase_pos)[0]: the message, from
\* the symbols not erased (those are symbols encode produced);
\* ReedSolomonError with more than nsym erasures
rs_decode(stripe, nsym, erase_pos) ==
    IF TooManyErasures(Cardinality(erase_pos), nsym) THEN RSError
    ELSE LET k == Len(stripe) - nsym
             known == Ascending((0..(Len(stripe) - 1)) \ erase_pos, k)
             values == [j \in 1..k |-> stripe[known[j] + 1]]
         IN  [i \in 1..k |-> Interpolate(known, values, 1, i - 1)]

\* (mutant) the shard size is rounded down
ShardSizeFloor(total_size, data_blocks) == total_size \div data_blocks

\* math.ceil(total_size / self.data_blocks) (erasure_code.py:31)
ShardSize(total_size, data_blocks) ==
    (total_size + data_blocks - 1) \div data_blocks

\* data.ljust(n, b'\x00')
Ljust(data, n) ==
    IF Len(data) >= n THEN data
    ELSE data \o [i \in 1..(n - Len(data)) |-> 0]

\* ErasureCode.encode (erasure_code.py:29-66): its shards, data shards first
encode(data, data_blocks, parity_blocks) ==
    LET shard_size == ShardSize(Len(data), data_blocks)
        padded_data == Ljust(data, data_blocks * shard_size)
        shards == [i \in 1..data_blocks |->
                     SubSeq(padded_data, (i - 1) * shard_size + 1, i * shard_size)]
        encoded_msg(j) == rs_encode([i \in 1..data_blocks |-> shards[i][j]],
                                    parity_blocks)
        parity_shards == [i \in 1..parity_blocks |->
                            [j \in 1..shard_size |->
                               encoded_msg(j)[data_blocks + i]]]
    IN  shards \o parity_shards

\* a shard given as None
NoBlock == [present |-> FALSE, bytes |-> <<>>]

\* the shards as extract_data_blocks gets them, those of missing as None
BlocksWithout(shards, missing) ==
    [i \in 1..Len(shards) |->
        IF (i - 1) \in missing THEN NoBlock
        ELSE [present |-> TRUE, bytes |-> shards[i]]]

\* raise ValueError(...)
ErasureError(msg) == [status |-> msg, data |-> <<>>]

RECURSIVE Flatten(_)
Flatten(seqs) ==
    IF Len(seqs) = 0 THEN <<>> ELSE seqs[1] \o Flatten(Tail(seqs))

\* the first n elements (data[:n])
Prefix(data, n) == SubSeq(data, 1, IF n < Len(data) THEN n ELSE Len(data))

\* ErasureCode.extract_data_blocks (erasure_code.py:126-175)
extract_data_blocks(blocks, original_data_size, data_blocks, parity_blocks) ==
    LET total_shards == data_blocks + parity_blocks
        present == {i \in 1..Len(blocks) : blocks[i].present}
    IN
    IF Len(blocks) = 0 THEN ErasureError("ValueError: No blocks provided")
    ELSE IF present = {} THEN ErasureError("ValueError: All blocks are missing")
    ELSE IF Len(blocks) # total_shards
    THEN ErasureError("ValueError: Expected total_shards blocks")
    ELSE
    LET valid_block == blocks[CHOOSE i \in present : \A o \in present : i <= o]
        shard_size == Len(valid_block.bytes)
        erase_pos == {i - 1 : i \in (1..Len(blocks)) \ present}
        shards == [i \in 1..total_shards |->
                     IF blocks[i].present THEN blocks[i].bytes
                     ELSE [j \in 1..shard_size |-> 0]]
        decoded_stripe(j) ==
            rs_decode([i \in 1..total_shards |-> shards[i][j]],
                      parity_blocks, erase_pos)
    IN  IF \E j \in 1..shard_size : decoded_stripe(j) = RSError
        THEN ErasureError("ValueError: Decoding error")
        ELSE LET decoded_shards ==
                     [i \in 1..data_blocks |->
                        [j \in 1..shard_size |-> decoded_stripe(j)[i]]]
             IN  [status |-> "ok",
                  data |-> Prefix(Flatten(decoded_shards), original_data_size)]

\* nothing extracted yet
NotExtracted == [status |-> "none", data |-> <<>>]

ErasureStart ==
    /\ ec_data_blocks \in 1..MaxDataBlocks
    /\ ec_parity_blocks \in 1..MaxParityBlocks
    /\ ec_data \in ErasureInputs
    /\ ec_pc = "new"
    /\ ec_shards = <<>>
    /\ ec_missing = {}
    /\ ec_result = NotExtracted

ErasureIdle ==
    /\ ec_data_blocks = 1
    /\ ec_parity_blocks = 1
    /\ ec_data = <<>>
    /\ ec_pc = "new"
    /\ ec_shards = <<>>
    /\ ec_missing = {}
    /\ ec_result = NotExtracted

\* encoded = erasure_code.encode(data)
ErasureEncode ==
    /\ ec_pc = "new"
    /\ ec_shards' = encode(ec_data, ec_data_blocks, ec_parity_blocks)
    /\ ec_pc' = "encoded"
    /\ UNCHANGED <<ec_data_blocks, ec_parity_blocks, ec_data, ec_missing, ec_result>>
    /\ UNCHANGED notErasure

\* erasure_code.extract_data_blocks(blocks, len(data)), some shards None
ErasureExtract ==
    /\ ec_pc = "encoded"
    /\ \E missing \in SUBSET (0..(ec_data_blocks + ec_parity_blocks - 1)) :
        /\ ec_missing' = missing
        /\ ec_result' = extract_data_blocks(BlocksWithout(ec_shards, missing),
                                            Len(ec_data), ec_data_blocks,
                                            ec_parity_blocks)
    /\ ec_pc' = "extracted"
    /\ UNCHANGED <<ec_data_blocks, ec_parity_blocks, ec_data, ec_shards>>
    /\ UNCHANGED notErasure

ErasureNext == ErasureEncode \/ ErasureExtract

(***************************************************************************)
(*                           Download pipeline                             *)
(*                                                                         *)
(* spec.md 4.9: the chunks of the download descriptor, one after the       *)
(* other; the blocks of a chunk are fetched concurrently, verified against *)
(* their CIDs, decoded and written to the sink.  The blocks of a chunk are *)
(* the shards of ErasureCode.encode, or the leaves of build_dag when no    *)
(* coder is configured.                                                    *)
(***************************************************************************)
MaxDlChunks   == 2   \* bound: chunks of the file
MaxDlChunkLen == 2   \* bound: bytes of one chunk
MaxDlParity   == 1   \* bound: m of the coder (k is up to MaxDataBlocks)

\* the files: chunk c holds MaxDlChunkLen or fewer bytes, never none
DlFiles ==
    {[c \in 1..n |-> [i \in 1..len |-> (c + i) % 2]] :
        n \in 1..MaxDlChunks, len \in 1..MaxDlChunkLen}

\* no erasure coder
NoCoder == [on |-> FALSE, k |-> 0, m |-> 0]

DlCoders ==
    {NoCoder} \cup
    {[on |-> TRUE, k |-> k, m |-> m] :
        k \in 1..MaxDataBlocks, m \in 1..MaxDlParity}

DownloadStart ==
    /\ dl_erasure \in DlCoders
    /\ dl_block_size \in 1..MaxDlChunkLen
    /\ dl_erasure.on => dl_block_size = 1
    /\ dl_file \in DlFiles
    /\ dl_pc = "next"
    /\ dl_cur = 1
    /\ dl_expected = <<>>
    /\ dl_blocks = <<>>
    /\ dl_created = [c \in DOMAIN dl_file |-> 0]
    /\ dl_outcome = [c \in DOMAIN dl_file |-> "none"]
    /\ dl_erased = [c \in DOMAIN dl_file |-> 0]
    /\ dl_sink = <<>>

DownloadIdle ==
    /\ dl_erasure = NoCoder
    /\ dl_block_size = 1
    /\ dl_file = <<>>
    /\ dl_pc = "next"
    /\ dl_cur = 1
    /\ dl_expected = <<>>
    /\ dl_blocks = <<>>
    /\ dl_created = <<>>
    /\ dl_outcome = <<>>
    /\ dl_erased = <<>>
    /\ dl_sink = <<>>

\* the payloads of the blocks a chunk was uploaded as (spec.md 4.8, 3b-3c)
UploadedBlocks(data, coder, block_size) ==
    IF coder.on THEN encode(data, coder.k, coder.m)
    ELSE [i \in 1..BlockCount(data, block_size) |->
            BlockData(data, block_size, i)]

\* a block not fetched yet
Pending == [state |-> "pending", got |-> "none", block |-> NoBlock]

\* what a node may answer for a block
Answers == {"ok", "missing", "mismatched"}

\* bytes that are not the block's: the first byte is another
Corrupted(bytes) ==
    IF Len(bytes) = 0 THEN <<1>>
    ELSE [bytes EXCEPT ![1] = (bytes[1] + 1) % FieldSize]

\* the bytes the stream delivers
Received(expected, answer) ==
    IF answer = "ok" THEN [present |-> TRUE, bytes |-> expected]
    ELSE IF answer = "mismatched"
    THEN [present |-> TRUE, bytes |-> Corrupted(expected)]
    ELSE NoBlock

\* (mutant) the bytes received are kept as they are
Unverified(received, expected) == received

\* step 3: CID(decoded_bytes) against the expected block CID; on mismatch the
\* block is an erasure
Verified(received, expected) ==
    IF received.present /\ received.bytes = expected THEN received ELSE NoBlock

\* (mutant) the loop leaves out every other chunk
ChunkAfterSkips(c, n) == c + 2

\* for chunk in file_download.chunks: the chunk after chunk c
ChunkAfter(c, n) == c + 1

\* step 2: FileDownloadChunkCreate for the chunk in work
DownloadCreateChunk ==
    /\ dl_pc = "next"
    /\ dl_cur \in DOMAIN dl_file
    /\ dl_outcome[dl_cur] = "none"
    /\ dl_created' = [dl_created EXCEPT ![dl_cur] = @ + 1]
    /\ dl_expected' = UploadedBlocks(dl_file[dl_cur], dl_erasure, dl_block_size)
    /\ dl_blocks' = [b \in DOMAIN dl_expected' |-> Pending]
    /\ dl_pc' = "fetch"
    /\ UNCHANGED <<dl_erasure, dl_block_size, dl_file, dl_cur, dl_outcome,
                   dl_erased, dl_sink>>
    /\ UNCHANGED notDownload

\* step 3: one block of the chunk is fetched and verified; in any order
DownloadFetchBlock ==
    /\ dl_pc = "fetch"
    /\ \E b \in DOMAIN dl_blocks, answer \in Answers :
        /\ dl_blocks[b].state = "pending"
        /\ dl_blocks' = [dl_blocks EXCEPT ![b] =
              [state |-> "fetched", got |-> answer,
               block |-> Verified(Received(dl_expected[b], answer),
                                  dl_expected[b])]]
    /\ UNCHANGED <<dl_erasure, dl_block_size, dl_file, dl_pc, dl_cur,
                   dl_expected, dl_created, dl_outcome, dl_erased, dl_sink>>
    /\ UNCHANGED notDownload

\* step 4: the bytes of the chunk from its blocks
DecodedChunk(blocks, size, coder) ==
    IF coder.on
    THEN extract_data_blocks([b \in DOMAIN blocks |-> blocks[b].block], size,
                             coder.k, coder.m)
    ELSE IF \E b \in DOMAIN blocks : ~blocks[b].block.present
    THEN ErasureError("block missing")
    ELSE [status |-> "ok",
          data |-> Flatten([b \in DOMAIN blocks |-> blocks[b].block.bytes])]

\* steps 4 and 6: all blocks are in; the chunk is decoded and written, or
\* the download fails
DownloadWriteChunk ==
    /\ dl_pc = "fetch"
    /\ \A b \in DOMAIN dl_blocks : dl_blocks[b].state = "fetched"
    /\ LET decoded == DecodedChunk(dl_blocks, Len(dl_file[dl_cur]), dl_erasure)
           next == ChunkAfter(dl_cur, Len(dl_file))
       IN  /\ dl_erased' = [dl_erased EXCEPT ![dl_cur] =
                 Cardinality({b \in DOMAIN dl_blocks : ~dl_blocks[b].block.present})]
           /\ IF decoded.status = "ok"
              THEN /\ dl_sink' = dl_sink \o decoded.data
                   /\ dl_outcome' = [dl_outcome EXCEPT ![dl_cur] = "written"]
                   /\ dl_cur' = next
                   /\ dl_pc' = IF next \in DOMAIN dl_file /\ dl_outcome'[next] = "none"
                               THEN "next" ELSE "done"
              ELSE /\ dl_outcome' = [dl_outcome EXCEPT ![dl_cur] = "failed"]
                   /\ dl_pc' = "failed"
                   /\ UNCHANGED <<dl_sink, dl_cur>>
    /\ dl_expected' = <<>>
    /\ dl_blocks' = <<>>
    /\ UNCHANGED <<dl_erasure, dl_block_size, dl_file, dl_created>>
    /\ UNCHANGED notDownload

DownloadNext ==
    DownloadCreateChunk \/ DownloadFetchBlock \/ DownloadWriteChunk

(***************************************************************************)
(*                     Bucket and file operations                          *)
(*                                                                         *)
(* SDK.create_bucket, view_bucket, delete_bucket (sdk/sdk.py:307-343) and  *)
(* IPC.create_bucket (sdk/sdk_ipc.py:17-43) are modelled from the source.  *)
(* The other operations of IPC are not in this copy of sdk_ipc.py; they    *)
(* are modelled from their unit tests (tests/unit/test_sdk_ipc.py) and     *)
(* spec.md 4.10 and 7.  Every call is one step; the node and the chain     *)
(* answer as they please, except that a bucket or file is found iff it     *)
(* exists.                                                                 *)
(***************************************************************************)
MaxFacadeCalls == 2   \* bound: calls in one run

\* MIN_BUCKET_NAME_LENGTH (sdk/config.py, imported at sdk.py:16)
MIN_BUCKET_NAME_LENGTH == 3

BucketNames == {"", "ab", "abc"}

FileNames == {"", "f"}

\* what a unary RPC of the node ends with: an answer that tells the truth
\* (the resource, or NOT_FOUND) or a transport error
GrpcAnswers == {"truth", "UNAVAILABLE", "DEADLINE_EXCEEDED"}

\* what the client handed to IPC may answer: as the node does, or with an
\* empty response (None) for a resource that does not exist
RpcAnswers(exists) ==
    IF exists THEN GrpcAnswers ELSE GrpcAnswers \cup {"empty"}

\* what becomes of a transaction submitted
TxAnswers == {"mined", "reverted"}

\* what the storage binding given to IPC does in create_bucket
BindingAnswers == {"mined", "reverted", "None", "raises"}

NoCall ==
    [api |-> "none", op |-> "none", bucket |-> "", file |-> "", flag |-> FALSE,
     answer |-> "none"]

NoResult == [kind |-> "none", value |-> ""]

FacadeStart ==
    /\ fc_buckets \in SUBSET {"abc"}
    /\ fc_files \in SUBSET {<<b, "f">> : b \in fc_buckets}
    /\ fc_access_manager \in BOOLEAN
    /\ fc_call = NoCall
    /\ fc_grpc = <<>>
    /\ fc_views = <<>>
    /\ fc_txs = <<>>
    /\ fc_result = NoResult
    /\ fc_before = [buckets |-> fc_buckets, files |-> fc_files]
    /\ fc_prev = [call |-> NoCall, result |-> NoResult]
    /\ fc_calls = 0

FacadeIdle ==
    /\ fc_buckets = {}
    /\ fc_files = {}
    /\ fc_access_manager = FALSE
    /\ fc_call = NoCall
    /\ fc_grpc = <<>>
    /\ fc_views = <<>>
    /\ fc_txs = <<>>
    /\ fc_result = NoResult
    /\ fc_before = [buckets |-> {}, files |-> {}]
    /\ fc_prev = [call |-> NoCall, result |-> NoResult]
    /\ fc_calls = 0

\* what one call did
Outcome(grpc, views, txs, kind, value, buckets, files) ==
    [grpc |-> grpc, views |-> views, txs |-> txs,
     result |-> [kind |-> kind, value |-> value],
     buckets |-> buckets, files |-> files]

\* raised before anything left the client
Rejected(kind, value) ==
    Outcome(<<>>, <<>>, <<>>, kind, value, fc_buckets, fc_files)

\* the calls fc_prev keeps: a create_bucket or view_bucket that returned
Remembered(call, result) ==
    /\ call.op \in {"create_bucket", "view_bucket"}
    /\ result.kind \notin {"SDKError", "ValueError", "Exception"}

\* the call is over: its trace and result are recorded
Returns(api, op, bucket, file, flag, answer, out) ==
    /\ fc_calls' = fc_calls + 1
    /\ fc_prev' = IF Remembered(fc_call, fc_result)
                   THEN [call |-> fc_call, result |-> fc_result]
                   ELSE [call |-> NoCall, result |-> NoResult]
    /\ fc_before' = [buckets |-> fc_buckets, files |-> fc_files]
    /\ fc_call' = [api |-> api, op |-> op, bucket |-> bucket, file |-> file,
                   flag |-> flag, answer |-> answer]
    /\ fc_grpc' = out.grpc
    /\ fc_views' = out.views
    /\ fc_txs' = out.txs
    /\ fc_result' = out.result
    /\ fc_buckets' = out.buckets
    /\ fc_files' = out.files
    /\ UNCHANGED fc_access_manager
    /\ UNCHANGED notFacade

\* ---- SDK (sdk/sdk.py)

\* not name or len(name) < MIN_BUCKET_NAME_LENGTH (sdk.py:308)
InvalidBucketName(name) == name = "" \/ Len(name) < MIN_BUCKET_NAME_LENGTH

\* GrpcClientBase._handle_grpc_error (grpc_base.py:10-24): every RpcError
\* becomes an SDKError
handle_grpc_error(method_name, code) ==
    IF code = "DEADLINE_EXCEEDED"
    THEN [kind |-> "SDKError", value |-> "request timed out"]
    ELSE [kind |-> "SDKError", value |-> "gRPC call failed: " \o code]

\* the status a node ends a request about a bucket with
BucketStatus(answer, exists, when_exists, when_absent) ==
    IF answer \in {"UNAVAILABLE", "DEADLINE_EXCEEDED"} THEN answer
    ELSE IF exists THEN when_exists ELSE when_absent

\* SDK.create_bucket (sdk.py:321-328)
sdk_create_bucket(name, answer) ==
    LET status == BucketStatus(answer, name \in fc_buckets, "ALREADY_EXISTS", "OK")
    IN  IF InvalidBucketName(name)
        THEN Rejected("SDKError", "Invalid bucket name")
        ELSE IF status # "OK"
        THEN Outcome(<<"BucketCreate">>, <<>>, <<>>, "SDKError",
                     handle_grpc_error("BucketCreate", status).value,
                     fc_buckets, fc_files)
        ELSE Outcome(<<"BucketCreate">>, <<>>, <<>>, "BucketCreateResult",
                     name, fc_buckets \cup {name}, fc_files)

\* SDK.view_bucket (sdk.py:330-337)
sdk_view_bucket(name, answer) ==
    LET status == BucketStatus(answer, name \in fc_buckets, "OK", "NOT_FOUND")
    IN  IF InvalidBucketName(name)
        THEN Rejected("SDKError", "Invalid bucket name")
        ELSE IF status # "OK"
        THEN Outcome(<<"BucketView">>, <<>>, <<>>, "SDKError",
                     handle_grpc_error("BucketView", status).value,
                     fc_buckets, fc_files)
        ELSE Outcome(<<"BucketView">>, <<>>, <<>>, "Bucket",
                     name, fc_buckets, fc_files)

\* SDK.delete_bucket (sdk.py:339-343)
sdk_delete_bucket(name, answer) ==
    LET status == BucketStatus(answer, name \in fc_buckets, "OK", "NOT_FOUND")
    IN  IF InvalidBucketName(name)
        THEN Rejected("SDKError", "Invalid bucket name")
        ELSE IF status # "OK"
        THEN Outcome(<<"BucketDelete">>, <<>>, <<>>, "SDKError",
                     handle_grpc_error("BucketDelete", status).value,
                     fc_buckets, fc_files)
        ELSE Outcome(<<"BucketDelete">>, <<>>, <<>>, "True", "",
                     fc_buckets \ {name},
                     {f \in fc_files : f[1] # name})

SDKCreateBucket ==
    /\ fc_calls < MaxFacadeCalls
    /\ \E name \in BucketNames, answer \in GrpcAnswers :
        Returns("SDK", "create_bucket", name, "", FALSE, answer,
                sdk_create_bucket(name, answer))

SDKViewBucket ==
    /\ fc_calls < MaxFacadeCalls
    /\ \E name \in BucketNames, answer \in GrpcAnswers :
        Returns("SDK", "view_bucket", name, "", FALSE, answer,
                sdk_view_bucket(name, answer))

SDKDeleteBucket ==
    /\ fc_calls < MaxFacadeCalls
    /\ \E name \in BucketNames, answer \in GrpcAnswers :
        Returns("SDK", "delete_bucket", name, "", FALSE, answer,
                sdk_delete_bucket(name, answer))

\* ---- IPC.create_bucket (sdk/sdk_ipc.py)

\* a transaction: the contract function and its arguments
Tx(fn, args) == [fn |-> fn, args |-> args]

\* IPC.create_bucket (sdk_ipc.py:17-43); the except clause raises again what
\* was raised
ipc_create_bucket(name, answer) ==
    IF Len(name) < MIN_BUCKET_NAME_LENGTH
    THEN Rejected("ValueError", "Invalid bucket name")
    ELSE IF answer = "raises"
    THEN Rejected("Exception", "storage.create_bucket raised")
    ELSE LET txs == <<Tx("createBucket", <<"auth", name>>)>>
             landed == IF answer = "reverted" \/ name \in fc_buckets
                       THEN fc_buckets ELSE fc_buckets \cup {name}
         IN  IF answer = "None"
             THEN Outcome(<<>>, <<>>, txs, "Exception",
                          "Failed to create bucket", landed, fc_files)
             ELSE IF answer = "reverted" \/ name \in fc_buckets
             THEN Outcome(<<>>, <<>>, txs, "Exception",
                          "wait_for_tx raised", fc_buckets, fc_files)
             ELSE Outcome(<<>>, <<"getBucketByName">>, txs, "dict", name,
                          landed, fc_files)

IPCCreateBucket ==
    /\ fc_calls < MaxFacadeCalls
    /\ \E name \in BucketNames, answer \in BindingAnswers :
        Returns("IPC", "create_bucket", name, "", FALSE, answer,
                ipc_create_bucket(name, answer))

\* ---- the other operations of IPC (tests/unit/test_sdk_ipc.py, spec.md 4.10)

\* (mutant) the bucket is taken to exist without asking
BucketSeenAlways(answer, name) == answer \notin {"UNAVAILABLE", "DEADLINE_EXCEEDED"}

\* IPC.view_bucket found the bucket: BucketView answered with a bucket
BucketSeen(answer, name) == answer = "truth" /\ name \in fc_buckets

\* IPC.view_bucket: None for a bucket the node does not know
ipc_view_bucket(name, answer) ==
    IF name = ""
    THEN Rejected("SDKError", "empty bucket name")
    ELSE IF BucketSeen(answer, name)
    THEN Outcome(<<"BucketView">>, <<>>, <<>>, "IPCBucket", name,
                 fc_buckets, fc_files)
    ELSE IF answer \in {"UNAVAILABLE", "DEADLINE_EXCEEDED"}
    THEN Outcome(<<"BucketView">>, <<>>, <<>>, "SDKError",
                 "failed to view bucket", fc_buckets, fc_files)
    ELSE Outcome(<<"BucketView">>, <<>>, <<>>, "None", "",
                 fc_buckets, fc_files)

\* the transactions of IPC.delete_bucket for a bucket that exists
DeleteBucketTxs(name, tx) == <<Tx("deleteBucket", <<"auth", name>>)>>

\* IPC.delete_bucket: the bucket is looked up before the contract is called
ipc_delete_bucket(name, answer, tx) ==
    IF name = ""
    THEN Rejected("SDKError", "empty bucket name")
    ELSE IF answer \in {"UNAVAILABLE", "DEADLINE_EXCEEDED"}
    THEN Outcome(<<"BucketView">>, <<>>, <<>>, "SDKError",
                 "failed to view bucket", fc_buckets, fc_files)
    ELSE IF ~ BucketSeen(answer, name)
    THEN Outcome(<<"BucketView">>, <<>>, <<>>, "SDKError",
                 "bucket not found", fc_buckets, fc_files)
    ELSE IF tx = "reverted"
    THEN Outcome(<<"BucketView">>, <<>>, DeleteBucketTxs(name, tx), "SDKError",
                 "failed to delete bucket", fc_buckets, fc_files)
    ELSE Outcome(<<"BucketView">>, <<>>, DeleteBucketTxs(name, tx), "ok", "",
                 fc_buckets \ {name}, {f \in fc_files : f[1] # name})

\* (mutant) the file name is not looked at
EmptyNameBucketOnly(op, bucket, file) ==
    IF bucket = "" THEN "empty bucket name" ELSE ""

\* the message of the name check of a file operation, "" when it passes
EmptyName(op, bucket, file) ==
    IF op = "file_delete"
    THEN IF bucket = "" \/ file = "" THEN "empty bucket or file name" ELSE ""
    ELSE IF bucket = "" THEN "empty bucket name"
    ELSE IF file = "" /\ op # "list_files" THEN "empty file name"
    ELSE ""

\* IPC.list_files
ipc_list_files(bucket, answer) ==
    IF EmptyName("list_files", bucket, "") # ""
    THEN Rejected("SDKError", EmptyName("list_files", bucket, ""))
    ELSE IF answer \in {"UNAVAILABLE", "DEADLINE_EXCEEDED"}
    THEN Outcome(<<"FileList">>, <<>>, <<>>, "SDKError",
                 "failed to list files", fc_buckets, fc_files)
    ELSE Outcome(<<"FileList">>, <<>>, <<>>, "list", bucket,
                 fc_buckets, fc_files)

\* IPC.file_info
ipc_file_info(bucket, file, answer) ==
    IF EmptyName("file_info", bucket, file) # ""
    THEN Rejected("SDKError", EmptyName("file_info", bucket, file))
    ELSE IF answer \in {"UNAVAILABLE", "DEADLINE_EXCEEDED"}
    THEN Outcome(<<"FileView">>, <<>>, <<>>, "SDKError",
                 "failed to get file info", fc_buckets, fc_files)
    ELSE IF answer = "truth" /\ <<bucket, file>> \in fc_files
    THEN Outcome(<<"FileView">>, <<>>, <<>>, "IPCFileMeta", file,
                 fc_buckets, fc_files)
    ELSE Outcome(<<"FileView">>, <<>>, <<>>, "None", "",
                 fc_buckets, fc_files)

\* IPC.create_file_upload: the bucket is viewed, then createFile is sent
ipc_create_file_upload(bucket, file, answer, tx) ==
    IF EmptyName("create_file_upload", bucket, file) # ""
    THEN Rejected("SDKError", EmptyName("create_file_upload", bucket, file))
    ELSE IF ~ BucketSeen(answer, bucket)
    THEN Outcome(<<"BucketView">>, <<>>, <<>>, "SDKError",
                 "bucket not found", fc_buckets, fc_files)
    ELSE IF tx = "reverted" \/ <<bucket, file>> \in fc_files
    THEN Outcome(<<"BucketView">>, <<>>,
                 <<Tx("createFile", <<"auth", bucket, file>>)>>, "SDKError",
                 "failed to create file", fc_buckets, fc_files)
    ELSE Outcome(<<"BucketView">>, <<>>,
                 <<Tx("createFile", <<"auth", bucket, file>>)>>, "ok", "",
                 fc_buckets, fc_files \cup {<<bucket, file>>})

\* IPC.file_delete: bucket and file are read from the contract, then
\* deleteFile is sent
ipc_file_delete(bucket, file, tx) ==
    IF EmptyName("file_delete", bucket, file) # ""
    THEN Rejected("SDKError", EmptyName("file_delete", bucket, file))
    ELSE IF bucket \notin fc_buckets
    THEN Outcome(<<>>, <<"getBucketByName">>, <<>>, "SDKError",
                 "failed to get bucket", fc_buckets, fc_files)
    ELSE IF <<bucket, file>> \notin fc_files
    THEN Outcome(<<>>, <<"getBucketByName", "getFileByName">>, <<>>,
                 "SDKError", "failed to get file", fc_buckets, fc_files)
    ELSE IF tx = "reverted"
    THEN Outcome(<<>>, <<"getBucketByName", "getFileByName">>,
                 <<Tx("deleteFile", <<"auth", bucket, file>>)>>, "SDKError",
                 "failed to delete file", fc_buckets, fc_files)
    ELSE Outcome(<<>>, <<"getBucketByName", "getFileByName">>,
                 <<Tx("deleteFile", <<"auth", bucket, file>>)>>, "ok", "",
                 fc_buckets, fc_files \ {<<bucket, file>>})

\* IPC.create_file_download
ipc_create_file_download(bucket, file, answer) ==
    IF EmptyName("create_file_download", bucket, file) # ""
    THEN Rejected("SDKError", EmptyName("create_file_download", bucket, file))
    ELSE IF answer \in {"UNAVAILABLE", "DEADLINE_EXCEEDED"}
    THEN Outcome(<<"FileDownloadCreate">>, <<>>, <<>>, "SDKError",
                 "failed to create file download", fc_buckets, fc_files)
    ELSE Outcome(<<"FileDownloadCreate">>, <<>>, <<>>, "IPCFileDownload",
                 file, fc_buckets, fc_files)

\* the id the contract knows the file by
FileId(bucket, file) == <<"file_id", bucket, file>>

\* (mutant) the access manager is looked at last, after the transaction
\* was built and sent
PublicAccessTxsUnchecked(bucket, file, flag, answer) ==
    IF BucketSeen(answer, bucket) /\ <<bucket, file>> \in fc_files
    THEN <<Tx("changePublicAccess", <<"auth", FileId(bucket, file), flag>>)>>
    ELSE <<>>

\* the transactions of IPC.file_set_public_access: one, when every check
\* has passed
PublicAccessTxs(bucket, file, flag, answer) ==
    IF /\ BucketSeen(answer, bucket)
       /\ <<bucket, file>> \in fc_files
       /\ fc_access_manager
    THEN <<Tx("changePublicAccess", <<"auth", FileId(bucket, file), flag>>)>>
    ELSE <<>>

\* IPC.file_set_public_access: names, bucket, file, access manager, then
\* AccessManager.change_public_access
ipc_file_set_public_access(bucket, file, flag, answer, tx) ==
    IF EmptyName("file_set_public_access", bucket, file) # ""
    THEN Rejected("SDKError", EmptyName("file_set_public_access", bucket, file))
    ELSE IF ~ BucketSeen(answer, bucket)
    THEN Outcome(<<"BucketView">>, <<>>,
                 PublicAccessTxs(bucket, file, flag, answer), "SDKError",
                 "bucket not found", fc_buckets, fc_files)
    ELSE IF <<bucket, file>> \notin fc_files
    THEN Outcome(<<"BucketView">>, <<"getFileByName">>,
                 PublicAccessTxs(bucket, file, flag, answer), "SDKError",
                 "failed to get file", fc_buckets, fc_files)
    ELSE IF ~ fc_access_manager
    THEN Outcome(<<"BucketView">>, <<"getFileByName">>,
                 PublicAccessTxs(bucket, file, flag, answer), "SDKError",
                 "access manager not available", fc_buckets, fc_files)
    ELSE IF tx = "reverted"
    THEN Outcome(<<"BucketView">>, <<"getFileByName">>,
                 PublicAccessTxs(bucket, file, flag, answer), "SDKError",
                 "failed to change public access", fc_buckets, fc_files)
    ELSE Outcome(<<"BucketView">>, <<"getFileByName">>,
                 PublicAccessTxs(bucket, file, flag, answer), "ok", "",
                 fc_buckets, fc_files)

IPCViewBucket ==
    /\ fc_calls < MaxFacadeCalls
    /\ \E name \in BucketNames :
        \E answer \in RpcAnswers(name \in fc_buckets) :
            Returns("IPC", "view_bucket", name, "", FALSE, answer,
                    ipc_view_bucket(name, answer))

IPCDeleteBucket ==
    /\ fc_calls < MaxFacadeCalls
    /\ \E name \in BucketNames, tx \in TxAnswers :
        \E answer \in RpcAnswers(name \in fc_buckets) :
            Returns("IPC", "delete_bucket", name, "", FALSE, answer,
                    ipc_delete_bucket(name, answer, tx))

IPCListFiles ==
    /\ fc_calls < MaxFacadeCalls
    /\ \E bucket \in BucketNames :
        \E answer \in RpcAnswers(bucket \in fc_buckets) :
            Returns("IPC", "list_files", bucket, "", FALSE, answer,
                    ipc_list_files(bucket, answer))

IPCFileInfo ==
    /\ fc_calls < MaxFacadeCalls
    /\ \E bucket \in BucketNames, file \in FileNames :
        \E answer \in RpcAnswers(<<bucket, file>> \in fc_files) :
            Returns("IPC", "file_info", bucket, file, FALSE, answer,
                    ipc_file_info(bucket, file, answer))

IPCCreateFileUpload ==
    /\ fc_calls < MaxFacadeCalls
    /\ \E bucket \in BucketNames, file \in FileNames, tx \in TxAnswers :
        \E answer \in RpcAnswers(bucket \in fc_buckets) :
            Returns("IPC", "create_file_upload", bucket, file, FALSE, answer,
                    ipc_create_file_upload(bucket, file, answer, tx))

IPCFileDelete ==
    /\ fc_calls < MaxFacadeCalls
    /\ \E bucket \in BucketNames, file \in FileNames, tx \in TxAnswers :
        Returns("IPC", "file_delete", bucket, file, FALSE, "none",
                ipc_file_delete(bucket, file, tx))

IPCCreateFileDownload ==
    /\ fc_calls < MaxFacadeCalls
    /\ \E bucket \in BucketNames, file \in FileNames :
        \E answer \in RpcAnswers(<<bucket, file>> \in fc_files) :
            Returns("IPC", "create_file_download", bucket, file, FALSE, answer,
                    ipc_create_file_download(bucket, file, answer))

IPCFileSetPublicAccess ==
    /\ fc_calls < MaxFacadeCalls
    /\ \E bucket \in BucketNames, file \in FileNames, flag \in BOOLEAN,
          tx \in TxAnswers :
        \E answer \in RpcAnswers(bucket \in fc_buckets) :
            Returns("IPC", "file_set_public_access", bucket, file, flag,
                    answer, ipc_file_set_public_access(bucket, file, flag,
                                                       answer, tx))

FacadeNext ==
    \/ SDKCreateBucket
    \/ SDKViewBucket
    \/ SDKDeleteBucket
    \/ IPCCreateBucket
    \/ IPCViewBucket
    \/ IPCDeleteBucket
    \/ IPCListFiles
    \/ IPCFileInfo
    \/ IPCCreateFileUpload
    \/ IPCFileDelete
    \/ IPCCreateFileDownload
    \/ IPCFileSetPublicAccess

(***************************************************************************)
(*                               DAGRoot                                   *)
(*                                                                         *)
(* sdk/dag.py:51-137: add_link collects one link per chunk, build makes    *)
(* the root of the file from them.  A CID given to add_link is a name and  *)
(* whether CID.decode accepts it.                                          *)
(***************************************************************************)
MaxRootLinks == 2   \* bound: add_link calls on one DAGRoot
MaxRootRaw   == 1   \* bound: raw_data_size of one chunk

RootCids == [name : {"c1", "c2"}, decodes : BOOLEAN]

RootStart ==
    /\ dr_ipld \in BOOLEAN
    /\ dr_links = <<>>
    /\ dr_total_file_size = 0
    /\ dr_args = <<>>
    /\ dr_root = RootNotBuilt

RootIdle ==
    /\ dr_ipld = TRUE
    /\ dr_links = <<>>
    /\ dr_total_file_size = 0
    /\ dr_args = <<>>
    /\ dr_root = RootNotBuilt

\* the entry add_link appends (dag.py:80-85): with the libraries "cid" is
\* the decoded CID, or the string itself when CID.decode raised
\* (dag.py:70-76)
RootLink(chunk_cid, proto_node_size, ipld) ==
    [cid_str |-> chunk_cid.name,
     is_str |-> ~ ipld \/ ~ chunk_cid.decodes,
     decodes |-> chunk_cid.decodes,
     size |-> proto_node_size]

\* pb_links of DAGRoot.build (dag.py:110-124): a link still held as a string
\* is decoded, and passed over when that raises
PbLinks(links) ==
    SelectSeq(links, LAMBDA link : ~ link.is_str \/ link.decodes)

\* DAGRoot.build (dag.py:87-137)
DAGRoot_build(links, total_file_size, ipld) ==
    IF Len(links) = 0
    THEN [codec |-> "DAGError: no chunks added", links |-> <<>>]
    ELSE IF Len(links) = 1
    THEN [codec |-> "link", links |-> <<links[1].cid_str>>]
    ELSE IF ~ ipld
    THEN [codec |-> "digest",
          links |-> [i \in 1..Len(links) |-> links[i].cid_str]]
    ELSE IF Len(PbLinks(links)) = 0
    THEN [codec |-> "DAGError: failed to build DAG root", links |-> <<>>]
    ELSE [codec |-> "dag-pb",
          links |-> [i \in 1..Len(PbLinks(links)) |-> PbLinks(links)[i].cid_str]]

\* DAGRoot.add_link (dag.py:62-85)
RootAddLink ==
    /\ Len(dr_args) < MaxRootLinks
    /\ \E chunk_cid \in RootCids, raw_data_size \in 0..MaxRootRaw :
        \E proto_node_size \in raw_data_size..(raw_data_size + 1) :
            /\ dr_total_file_size' = dr_total_file_size + raw_data_size
            /\ dr_links' = add_link(dr_links,
                                    RootLink(chunk_cid, proto_node_size, dr_ipld))
            /\ dr_args' = Append(dr_args, [chunk_cid |-> chunk_cid,
                                           raw_data_size |-> raw_data_size,
                                           proto_node_size |-> proto_node_size])
    /\ dr_root' = RootNotBuilt
    /\ UNCHANGED dr_ipld
    /\ UNCHANGED notRoot

\* DAGRoot.build (dag.py:87-137)
RootBuild ==
    /\ dr_root = RootNotBuilt
    /\ dr_root' = DAGRoot_build(dr_links, dr_total_file_size, dr_ipld)
    /\ UNCHANGED <<dr_ipld, dr_links, dr_total_file_size, dr_args>>
    /\ UNCHANGED notRoot

RootNext == RootAddLink \/ RootBuild

(***************************************************************************)
(*              ConnectionPool.create_client, step by step                 *)
(*                                                                         *)
(* sdk/connection.py:18-118 for one caller: every run of the creation step *)
(* under _retry_with_backoff, every sleep between two runs, and every      *)
(* channel opened, the ones that failed included.  An address is a         *)
(* sequence of characters.                                                 *)
(***************************************************************************)
MaxConnectCalls == 2   \* bound: calls of create_client / create_ipc_client

\* the addresses given: empty (or None), blank, a node
ConnectAddrs == {<<>>, <<" ">>, <<"n", "1">>}

RECURSIVE LStrip(_)
\* str.lstrip()
LStrip(addr) ==
    IF Len(addr) > 0 /\ Head(addr) = " " THEN LStrip(Tail(addr)) ELSE addr

RECURSIVE RStrip(_)
\* str.rstrip()
RStrip(addr) ==
    IF Len(addr) > 0 /\ addr[Len(addr)] = " "
    THEN RStrip(SubSeq(addr, 1, Len(addr) - 1)) ELSE addr

\* not addr or not addr.strip() (connection.py:45, 63, 99)
InvalidAddress(addr) == Len(addr) = 0 \/ Len(LStrip(RStrip(addr))) = 0

\* how opening a channel ends: grpc.insecure_channel raises grpc.RpcError,
\* or the readiness probe is ready, times out or raises
OpenOutcomes == {"ready", "timeout", "error", "RpcError"}

NoConnectCall == [op |-> "none", addr |-> <<>>, pooled |-> FALSE]

NotConnected == [kind |-> "none", msg |-> "", conn |-> 0]

ConnectStart ==
    /\ cn_connections = 0
    /\ cn_chan = <<>>
    /\ cn_pc = "idle"
    /\ cn_call = NoConnectCall
    /\ cn_current_retry = 0
    /\ cn_runs = <<>>
    /\ cn_slept = 0
    /\ cn_result = NotConnected
    /\ cn_calls = 0

ConnectIdle == ConnectStart

\* create_client / create_ipc_client (connection.py:43-80):
\* _retry_with_backoff starts with current_retry = 0
ConnectCall ==
    /\ cn_pc \in {"idle", "done"}
    /\ cn_calls < MaxConnectCalls
    /\ cn_calls' = cn_calls + 1
    /\ \E op \in {"create_client", "create_ipc_client"}, addr \in ConnectAddrs,
          pooled \in BOOLEAN :
        cn_call' = [op |-> op, addr |-> addr, pooled |-> pooled]
    /\ cn_pc' = "run"
    /\ cn_current_retry' = 0
    /\ cn_runs' = <<>>
    /\ cn_slept' = 0
    /\ cn_result' = NotConnected
    /\ UNCHANGED <<cn_connections, cn_chan>>
    /\ UNCHANGED notConnect

\* _retry_with_backoff (connection.py:24-30): grpc.RpcError is handled and
\* raised, every other Exception, SDKError included, is counted
Retryable(raised) == raised # "RpcError"

\* the except branches of _retry_with_backoff (connection.py:26-41) after
\* the creation step raised
ConnectRaised(raised) ==
    IF ~ Retryable(raised)
    THEN /\ cn_result' = [kind |-> "SDKError",
                          msg |-> IF raised = "RpcError"
                                  THEN "gRPC call failed" ELSE raised,
                          conn |-> 0]
         /\ cn_pc' = "done"
         /\ UNCHANGED cn_current_retry
    ELSE /\ cn_current_retry' = cn_current_retry + 1
         /\ IF cn_current_retry + 1 >= PoolRetries
            THEN /\ cn_result' = [kind |-> "SDKError",
                                  msg |-> "failed after attempts: " \o raised,
                                  conn |-> 0]
                 /\ cn_pc' = "done"
            ELSE /\ cn_pc' = "sleep"
                 /\ UNCHANGED cn_result

\* (mutant) the channel that failed its probe is left open
ChannelAfterProbeOpen(outcome) == "open"

\* _create_new_connection (connection.py:103-118): conn.close() when the
\* probe raised anything but the timeout
ChannelAfterProbe(outcome) == IF outcome = "error" THEN "closed" ELSE "open"

\* one run of _create (connection.py:44-57, 62-78) with _get_connection and
\* _create_new_connection (connection.py:82-118)
ConnectCreate ==
    /\ cn_pc = "run"
    /\ IF InvalidAddress(cn_call.addr)
       THEN /\ cn_runs' = Append(cn_runs, "Invalid address")
            /\ ConnectRaised("Invalid address")
            /\ UNCHANGED <<cn_connections, cn_chan>>
       ELSE IF cn_call.pooled /\ cn_connections # 0
       THEN /\ cn_runs' = Append(cn_runs, "pooled")
            /\ cn_result' = [kind |-> "ok", msg |-> "", conn |-> cn_connections]
            /\ cn_pc' = "done"
            /\ UNCHANGED <<cn_connections, cn_chan, cn_current_retry>>
       ELSE \E outcome \in OpenOutcomes :
            /\ cn_runs' = Append(cn_runs, outcome)
            /\ IF outcome = "RpcError"
               THEN /\ ConnectRaised("RpcError")
                    /\ UNCHANGED <<cn_connections, cn_chan>>
               ELSE /\ cn_chan' = Append(cn_chan,
                                         [state |-> ChannelAfterProbe(outcome),
                                          probe |-> outcome])
                    /\ IF outcome = "error"
                       THEN /\ ConnectRaised("Failed to connect")
                            /\ UNCHANGED cn_connections
                       ELSE /\ cn_connections' = IF cn_call.pooled
                                                 THEN Len(cn_chan) + 1
                                                 ELSE cn_connections
                            /\ cn_result' = [kind |-> "ok", msg |-> "",
                                             conn |-> Len(cn_chan) + 1]
                            /\ cn_pc' = "done"
                            /\ UNCHANGED cn_current_retry
    /\ UNCHANGED <<cn_call, cn_slept, cn_calls>>
    /\ UNCHANGED notConnect

\* time.sleep(current_delay); current_delay *= 2 (connection.py:37-38)
ConnectSleep ==
    /\ cn_pc = "sleep"
    /\ cn_slept' = cn_slept + 1
    /\ cn_pc' = "run"
    /\ UNCHANGED <<cn_connections, cn_chan, cn_call, cn_current_retry, cn_runs,
                   cn_result, cn_calls>>
    /\ UNCHANGED notConnect

ConnectNext == ConnectCall \/ ConnectCreate \/ ConnectSleep

(***************************************************************************)
(*                       encryption_key_derivation                         *)
(*                                                                         *)
(* sdk/sdk.py:370-379.  A name is a sequence of characters, a key a        *)
(* sequence of bytes.  derive_key (private/encryption) is taken as a       *)
(* function without collisions: its result is the pair it was given.       *)
(***************************************************************************)
MaxNameLen == 2   \* bound: characters of a bucket or file name

\* the characters of names
NameChars == {"a", "/"}

KeyNames == UNION {[1..n -> NameChars] : n \in 0..MaxNameLen}

\* root keys: none, and two that differ
RootKeys == {<<>>, <<1>>, <<2>>}

\* (bucketName, fileName), or one component more
InfoData ==
    (KeyNames \X KeyNames) \cup {<<b, f, <<"a">>>> : b \in {<<"a">>}, f \in KeyNames}

KeyStart ==
    /\ kd_parent_key \in RootKeys
    /\ kd_info_data \in InfoData
    /\ kd_other_info \in KeyNames \X KeyNames
    /\ kd_pc = "new"
    /\ kd_key = <<>>
    /\ kd_other_key = <<>>
    /\ kd_derive_calls = <<>>

KeyIdle ==
    /\ kd_parent_key = <<>>
    /\ kd_info_data = << <<>>, <<>> >>
    /\ kd_other_info = << <<>>, <<>> >>
    /\ kd_pc = "new"
    /\ kd_key = <<>>
    /\ kd_other_key = <<>>
    /\ kd_derive_calls = <<>>

RECURSIVE JoinPlain(_)
\* (mutant) the components are joined with nothing between them
JoinPlain(info_data) ==
    IF Len(info_data) = 0 THEN <<>>
    ELSE info_data[1] \o JoinPlain(Tail(info_data))

RECURSIVE Join(_)
\* "/".join(info_data) (sdk.py:374)
Join(info_data) ==
    IF Len(info_data) = 0 THEN <<>>
    ELSE IF Len(info_data) = 1 THEN info_data[1]
    ELSE info_data[1] \o <<"/">> \o Join(Tail(info_data))

\* info.encode(): the UTF-8 bytes of the characters used here
Utf8(info) == [i \in 1..Len(info) |-> IF info[i] = "/" THEN 47 ELSE 97]

\* derive_key(parent_key, info) of private/encryption
derive_key(parent_key, info) == <<"key of", parent_key, info>>

\* encryption_key_derivation (sdk.py:370-379): the key, and the calls of
\* derive_key it made
encryption_key_derivation(parent_key, info_data) ==
    IF Len(parent_key) = 0
    THEN [key |-> <<>>, calls |-> <<>>]
    ELSE LET info == Utf8(Join(info_data))
         IN  [key |-> derive_key(parent_key, info),
              calls |-> <<[key |-> parent_key, info |-> info]>>]

\* key = encryption_key_derivation(root_key, bucket_name, file_name)
KeyDerive ==
    /\ kd_pc = "new"
    /\ kd_key' = encryption_key_derivation(kd_parent_key, kd_info_data).key
    /\ kd_derive_calls' =
         kd_derive_calls \o encryption_key_derivation(kd_parent_key, kd_info_data).calls
    /\ kd_pc' = "derived"
    /\ UNCHANGED <<kd_parent_key, kd_info_data, kd_other_info, kd_other_key>>
    /\ UNCHANGED notKey

\* the same with the same root key for another bucket and file
KeyDeriveOther ==
    /\ kd_pc = "derived"
    /\ kd_other_key' = encryption_key_derivation(kd_parent_key, kd_other_info).key
    /\ kd_derive_calls' =
         kd_derive_calls \o encryption_key_derivation(kd_parent_key, kd_other_info).calls
    /\ kd_pc' = "both"
    /\ UNCHANGED <<kd_parent_key, kd_info_data, kd_other_info, kd_key>>
    /\ UNCHANGED notKey

KeyNext == KeyDerive \/ KeyDeriveOther

(***************************************************************************)
(*                             EIP-712 signer                              *)
(*                                                                         *)
(* private/eip712.py:28-85 and 244-258.  The curve arithmetic is that of   *)
(* the key library: a signature over a digest names its key and digest in  *)
(* r || s, its recovery id is 0 or 1, and recovery with the right id and   *)
(* digest gives the signer, with the other id another address.             *)
(***************************************************************************)
MaxSigIndex == 1   \* bound: chunkIndex, blockIndex and nonce of a message

PrivateKeys == {1, 2, 3}

ChainIds == {1, 2}

\* well-formed StorageData: the fields that vary here
StorageData ==
    [chunkIndex : 0..MaxSigIndex, blockIndex : 0..MaxSigIndex,
     nonce : 0..MaxSigIndex]

NoSignature == <<>>

NotRecovered == <<"not recovered">>

SignerStart ==
    /\ sg_key \in PrivateKeys
    /\ sg_chain_id \in ChainIds
    /\ sg_message \in StorageData
    /\ sg_library_v \in {0, 27}
    /\ sg_pc = "new"
    /\ sg_signature = NoSignature
    /\ sg_recovered = NotRecovered

SignerIdle ==
    /\ sg_key = 1
    /\ sg_chain_id = 1
    /\ sg_message = [chunkIndex |-> 0, blockIndex |-> 0, nonce |-> 0]
    /\ sg_library_v = 0
    /\ sg_pc = "new"
    /\ sg_signature = NoSignature
    /\ sg_recovered = NotRecovered

\* hash_typed_data (eip712.py:109-146): one digest for each domain and message
hash_typed_data(chain_id, data_message) ==
    ((chain_id * (MaxSigIndex + 1) + data_message.chunkIndex) * (MaxSigIndex + 1)
        + data_message.blockIndex) * (MaxSigIndex + 1) + data_message.nonce

\* the address of a private key
AddressOf(key) == <<"address of", key>>

\* the recovery id of the signature of a key over a digest
RecoveryId(key, digest) == (key + digest) % 2

\* private_key_obj.sign_msg_hash(digest).to_bytes() (eip712.py:73-75):
\* 32 bytes r, 32 bytes s, then the recovery id as the library writes it
sign_msg_hash(key, digest, library_v) ==
    [i \in 1..65 |-> IF i <= 32 THEN key
                     ELSE IF i <= 64 THEN digest
                     ELSE RecoveryId(key, digest) + library_v]

\* (mutant) 27 is added whatever the library wrote
VOutAdded(v) == v + 27

\* eip712.py:77-81: v is 27/28, and 27 is not added twice
VOut(v) == IF v \in {0, 1} THEN v + 27 ELSE v

\* sign (eip712.py:28-85)
sign(key, chain_id, data_message, library_v) ==
    LET typed_data_hash == hash_typed_data(chain_id, data_message)
        signature_bytes == sign_msg_hash(key, typed_data_hash, library_v)
        v == signature_bytes[65]
    IN  SubSeq(signature_bytes, 1, 64) \o <<VOut(v)>>

\* keys.Signature(sig).recover_public_key_from_msg_hash(digest) and
\* to_checksum_address (eip712.py:254-258)
recover_public_key_from_msg_hash(sig, digest) ==
    IF Len(sig) # 65 \/ sig[65] \notin {0, 1}
    THEN <<"BadSignature">>
    ELSE IF sig[33] = digest /\ sig[65] = RecoveryId(sig[1], sig[33])
         THEN AddressOf(sig[1])
         ELSE <<"address of", "another key">>

\* recover_signer_address (eip712.py:244-258)
recover_signer_address(signature, chain_id, data_message) ==
    LET hash_bytes == hash_typed_data(chain_id, data_message)
        sig_copy == IF signature[65] >= 27
                    THEN [signature EXCEPT ![65] = @ - 27]
                    ELSE signature
    IN  recover_public_key_from_msg_hash(sig_copy, hash_bytes)

\* signature = sign(private_key_bytes, domain, message, types)
SignerSign ==
    /\ sg_pc = "new"
    /\ sg_signature' = sign(sg_key, sg_chain_id, sg_message, sg_library_v)
    /\ sg_pc' = "signed"
    /\ UNCHANGED <<sg_key, sg_chain_id, sg_message, sg_library_v, sg_recovered>>
    /\ UNCHANGED notSigner

\* recover_signer_address(signature, domain, message, types)
SignerRecover ==
    /\ sg_pc = "signed"
    /\ sg_recovered' = recover_signer_address(sg_signature, sg_chain_id, sg_message)
    /\ sg_pc' = "recovered"
    /\ UNCHANGED <<sg_key, sg_chain_id, sg_message, sg_library_v, sg_signature>>
    /\ UNCHANGED notSigner

SignerNext == SignerSign \/ SignerRecover

(***************************************************************************)
(*                            Specifications                               *)
(***************************************************************************)
NonceInit ==
    /\ NonceStart
    /\ TxIdle /\ RetryIdle /\ PoolIdle /\ UploadIdle /\ SplitterIdle /\
       SDKIdle /\ DagIdle /\ ErasureIdle /\ DownloadIdle /\ FacadeIdle /\
       RootIdle /\ ConnectIdle /\ KeyIdle /\ SignerIdle

SpecNonce == NonceInit /\ [][NonceNext]_vars

TxInit ==
    /\ TxStart
    /\ NonceIdle /\ RetryIdle /\ PoolIdle /\ UploadIdle /\ SplitterIdle /\
       SDKIdle /\ DagIdle /\ ErasureIdle /\ DownloadIdle /\ FacadeIdle /\
       RootIdle /\ ConnectIdle /\ KeyIdle /\ SignerIdle

SpecTx == TxInit /\ [][TxNext]_vars

RetryInit ==
    /\ RetryStart
    /\ NonceIdle /\ TxIdle /\ PoolIdle /\ UploadIdle /\ SplitterIdle /\
       SDKIdle /\ DagIdle /\ ErasureIdle /\ DownloadIdle /\ FacadeIdle /\
       RootIdle /\ ConnectIdle /\ KeyIdle /\ SignerIdle

SpecRetry == RetryInit /\ [][RetryNext]_vars

PoolInit ==
    /\ PoolStart
    /\ NonceIdle /\ TxIdle /\ RetryIdle /\ UploadIdle /\ SplitterIdle /\
       SDKIdle /\ DagIdle /\ ErasureIdle /\ DownloadIdle /\ FacadeIdle /\
       RootIdle /\ ConnectIdle /\ KeyIdle /\ SignerIdle

SpecPool == PoolInit /\ [][PoolNext]_vars

UploadInit ==
    /\ UploadStart
    /\ NonceIdle /\ TxIdle /\ RetryIdle /\ PoolIdle /\ SplitterIdle /\
       SDKIdle /\ DagIdle /\ ErasureIdle /\ DownloadIdle /\ FacadeIdle /\
       RootIdle /\ ConnectIdle /\ KeyIdle /\ SignerIdle

SpecUpload == UploadInit /\ [][UploadNext]_vars

SplitterInit ==
    /\ SplitterStart
    /\ NonceIdle /\ TxIdle /\ RetryIdle /\ PoolIdle /\ UploadIdle /\
       SDKIdle /\ DagIdle /\ ErasureIdle /\ DownloadIdle /\ FacadeIdle /\
       RootIdle /\ ConnectIdle /\ KeyIdle /\ SignerIdle

SpecSplitter == SplitterInit /\ [][SplitterNext]_vars

SDKConstruction ==
    /\ SDKStart
    /\ NonceIdle /\ TxIdle /\ RetryIdle /\ PoolIdle /\ UploadIdle /\
       SplitterIdle /\ DagIdle /\ ErasureIdle /\ DownloadIdle /\
       FacadeIdle /\ RootIdle /\ ConnectIdle /\ KeyIdle /\ SignerIdle

SpecSDK == SDKConstruction /\ [][SDKNext]_vars

DagInit ==
    /\ DagStart
    /\ NonceIdle /\ TxIdle /\ RetryIdle /\ PoolIdle /\ UploadIdle /\
       SplitterIdle /\ SDKIdle /\ ErasureIdle /\ DownloadIdle /\
       FacadeIdle /\ RootIdle /\ ConnectIdle /\ KeyIdle /\ SignerIdle

SpecDag == DagInit /\ [][DagNext]_vars

ErasureInit ==
    /\ ErasureStart
    /\ NonceIdle /\ TxIdle /\ RetryIdle /\ PoolIdle /\ UploadIdle /\
       SplitterIdle /\ SDKIdle /\ DagIdle /\ DownloadIdle /\ FacadeIdle /\
       RootIdle /\ ConnectIdle /\ KeyIdle /\ SignerIdle

SpecErasure == ErasureInit /\ [][ErasureNext]_vars

DownloadInit ==
    /\ DownloadStart
    /\ NonceIdle /\ TxIdle /\ RetryIdle /\ PoolIdle /\ UploadIdle /\
       SplitterIdle /\ SDKIdle /\ DagIdle /\ ErasureIdle /\ FacadeIdle /\
       RootIdle /\ ConnectIdle /\ KeyIdle /\ SignerIdle

SpecDownload == DownloadInit /\ [][DownloadNext]_vars

FacadeInit ==
    /\ FacadeStart
    /\ NonceIdle /\ TxIdle /\ RetryIdle /\ PoolIdle /\ UploadIdle /\
       SplitterIdle /\ SDKIdle /\ DagIdle /\ ErasureIdle /\ DownloadIdle
       /\ RootIdle /\ ConnectIdle /\ KeyIdle /\ SignerIdle

SpecFacade == FacadeInit /\ [][FacadeNext]_vars

RootInit ==
    /\ RootStart
    /\ NonceIdle /\ TxIdle /\ RetryIdle /\ PoolIdle /\ UploadIdle /\
       SplitterIdle /\ SDKIdle /\ DagIdle /\ ErasureIdle /\ DownloadIdle
       /\ FacadeIdle /\ ConnectIdle /\ KeyIdle /\ SignerIdle

SpecRoot == RootInit /\ [][RootNext]_vars

ConnectInit ==
    /\ ConnectStart
    /\ NonceIdle /\ TxIdle /\ RetryIdle /\ PoolIdle /\ UploadIdle /\
       SplitterIdle /\ SDKIdle /\ DagIdle /\ ErasureIdle /\ DownloadIdle
       /\ FacadeIdle /\ RootIdle /\ KeyIdle /\ SignerIdle

SpecConnect == ConnectInit /\ [][ConnectNext]_vars

KeyInit ==
    /\ KeyStart
    /\ NonceIdle /\ TxIdle /\ RetryIdle /\ PoolIdle /\ UploadIdle /\
       SplitterIdle /\ SDKIdle /\ DagIdle /\ ErasureIdle /\ DownloadIdle
       /\ FacadeIdle /\ RootIdle /\ ConnectIdle /\ SignerIdle

SpecKey == KeyInit /\ [][KeyNext]_vars

SignerInit ==
    /\ SignerStart
    /\ NonceIdle /\ TxIdle /\ RetryIdle /\ PoolIdle /\ UploadIdle /\
       SplitterIdle /\ SDKIdle /\ DagIdle /\ ErasureIdle /\ DownloadIdle
       /\ FacadeIdle /\ RootIdle /\ ConnectIdle /\ KeyIdle

SpecSigner == SignerInit /\ [][SignerNext]_vars

(***************************************************************************)
(*                                Claims                                   *)
(***************************************************************************)
\* C1: every get_nonce returns a value strictly greater than every value an
\* earlier get_nonce returned, whatever get_nonce / reset_nonce calls and
\* resyncs came in between (no nonce is handed out twice).
C1_NoncesStrictlyIncreasing == StrictlyIncreasing(nm_issued)

\* C2: distinct write transactions of the account are built with strictly
\* increasing, hence pairwise distinct, nonces, also when they are submitted
\* concurrently.
C2_TxNoncesStrictlyIncreasing == StrictlyIncreasing(tx_built)

\* C5: of two concurrent uploads of the same (bucket, file name) into an
\* existing bucket that does not hold the file yet, exactly one succeeds and
\* the other fails with 'file already exists' (the uploads are the first call
\* of each thread; neither ran into the receipt timeout).
C5_ExactlyOneUploadSucceeds ==
    \A t, u \in Threads :
        ( /\ t # u
          /\ tx_ops[t] = 0 /\ tx_ops[u] = 0
          /\ tx_pc[t] = "done" /\ tx_pc[u] = "done"
          /\ tx_fn[t] = "createFile" /\ tx_fn[u] = "createFile"
          /\ tx_result[t] # "TimeExhausted" /\ tx_result[u] # "TimeExhausted"
          /\ tx_buckets = 1 )
        => {FileUploadError(tx_result[t]), FileUploadError(tx_result[u])}
             = {"ok", "file already exists"}

\* C6: a createBucket whose first submission fails with 'nonce too low' (a
\* retryable error) is resubmitted, succeeds on the second attempt, and the
\* bucket then exists on-chain exactly once.
C6_NonceTooLowIsRetried ==
    \A t \in Threads :
        ( /\ tx_pc[t] = "done"
          /\ tx_fn[t] = "createBucket"
          /\ Len(tx_sends[t]) >= 1
          /\ tx_sends[t][1] = "nonce too low"
          /\ is_retryable_tx_error(tx_sends[t][1]) )
        => /\ Len(tx_sends[t]) = 2
           /\ tx_sends[t][2] = "accepted"
           /\ tx_result[t] = "ok"
           /\ tx_buckets = 1

\* C7: the receipt waiter reports a timeout only when no receipt arrived
\* before the deadline; a receipt with status 0 is reported as a
\* transaction-failed error, never as a timeout.
C7_FailedReceiptIsNotTimeout ==
    \A t \in Threads :
        tx_pc[t] = "done" /\ tx_arrived[t] # "unset" =>
            /\ tx_result[t] = "TimeoutError" => tx_arrived[t] = "none"
            /\ tx_arrived[t] = "status0" => tx_result[t] = "TransactionFailedError"

\* ---- WithRetry.do

\* the calls of func made so far
Calls == Len(rt_outcomes)

\* the i-th call of func returned an error that asks for a retry
AsksRetry(i) == rt_outcomes[i].err # NoErr /\ rt_outcomes[i].needs_retry

C9_NonRetryablePropagates ==
    \A i \in 1..Calls :
        ~AsksRetry(i) =>
            /\ i = Calls
            /\ rt_pc = "returned"
            /\ rt_ret = Returned(rt_outcomes[i].err)
            /\ Len(rt_sleeps) = i - 1

C9_Witness ==
    /\ rt_pc = "returned"
    /\ Calls = 3
    /\ rt_outcomes[3] = [needs_retry |-> FALSE, err |-> "e1"]
    /\ rt_ret = Returned("e1")
    /\ Len(rt_sleeps) = 2

\* ---- ConnectionPool

\* the channels of the pool open for address a
OpenChannels(a) ==
    {i \in DOMAIN cp_chan :
        cp_chan[i].addr = a /\ cp_chan[i].pooled /\ cp_chan[i].state = "open"}

\* C10: whatever the interleaving of pooled lookups of an address, at most one
\* channel is open for it (a later lookup of an address in the pool opens no
\* new one), and every caller whose lookup returned with no close() since it
\* started holds that channel, which is the one in the pool map.
C10_OneChannelPerAddress ==
    /\ \A a \in Addrs : Cardinality(OpenChannels(a)) <= 1
    /\ \A t \in PThreads :
        (cp_pc[t] = "done" /\ cp_pooled[t] /\ cp_raised[t] = "none"
                           /\ ~cp_stale[t]) =>
            /\ cp_got[t] # NoConn
            /\ cp_got[t] = cp_connections[cp_addr[t]]
            /\ OpenChannels(cp_addr[t]) = {cp_got[t]}

\* two threads looked the same address up concurrently (both missed in the
\* first block) and both returned the one channel
C10_Witness ==
    \E t, u \in PThreads :
        /\ t # u
        /\ cp_pc[t] = "done" /\ cp_pc[u] = "done"
        /\ cp_addr[t] = cp_addr[u]
        /\ ~cp_stale[t] /\ ~cp_stale[u]
        /\ cp_via[t] = "created" /\ cp_via[u] = "second block"
        /\ cp_got[t] # NoConn /\ cp_got[t] = cp_got[u]
        /\ Len(cp_chan) = 1

\* a call of create_client / create_ipc_client that returned a client
ClientReturned(t) ==
    /\ cp_pc[t] \in {"done", "released"}
    /\ cp_op[t] = "_create"
    /\ cp_raised[t] = "none"

\* C11: a pooled client comes with no closer and its channel is the one in
\* the pool map (until close()); an unpooled client comes with a closer for
\* its own channel, that channel is never in the pool map, is closed by its
\* closer once that was called and by nothing else, and the closer closes no
\* channel of the pool.
C11_OwnershipFollowsPooledFlag ==
    /\ \A t \in PThreads :
        ClientReturned(t) =>
            /\ cp_got[t] # NoConn
            /\ cp_pooled[t] =>
                /\ cp_closer[t] = NoConn
                /\ cp_chan[cp_got[t]].pooled
                /\ ~cp_stale[t] => cp_connections[cp_addr[t]] = cp_got[t]
            /\ ~cp_pooled[t] =>
                /\ cp_closer[t] = cp_got[t]
                /\ ~cp_chan[cp_got[t]].pooled
                /\ cp_chan[cp_got[t]].state =
                      IF cp_pc[t] = "released" THEN "closed by closer" ELSE "open"
    /\ \A i \in DOMAIN cp_chan :
        IF cp_chan[i].pooled
        THEN cp_chan[i].state # "closed by closer"
        ELSE /\ i \notin PooledChannels
             /\ cp_chan[i].state \in {"open", "closed by closer"}

\* an unpooled channel that stayed open over a close() of the pool, and was
\* then closed by its closer, next to a pooled client
C11_Witness ==
    \E t, u \in PThreads :
        /\ ClientReturned(t) /\ ~cp_pooled[t] /\ cp_pc[t] = "released"
        /\ ClientReturned(u) /\ cp_pooled[u] /\ cp_stale[u]
        /\ cp_closed.attempted = {cp_got[u]}
        /\ cp_chan[cp_got[t]].state = "closed by closer"

\* C12: close() tries every pooled channel, whether or not closing another
\* one raised, leaves no channel in the map, and raises one SDKError naming
\* all the failures exactly when there was one: no pooled channel is left
\* open outside the map, the map holds open channels only, and the report of
\* the last close() lists exactly the attempted channels that failed.
C12_CloseTriesAllAndAggregates ==
    /\ \A i \in DOMAIN cp_chan :
        cp_chan[i].pooled => (cp_chan[i].state = "open" <=> i \in PooledChannels)
    /\ cp_closed.errors =
          {i \in cp_closed.attempted : cp_chan[i].state = "close failed"}
    /\ \A i \in cp_closed.attempted :
          cp_chan[i].state \in {"closed", "close failed"}
    /\ cp_closed.raised <=> cp_closed.errors # {}

\* a close() of two pooled channels, the first of which failed to close
C12_Witness ==
    /\ cp_closed.attempted = {1, 2}
    /\ cp_closed.errors = {1}
    /\ cp_closed.raised
    /\ cp_chan[2].state = "closed"
    /\ PooledChannels = {}

\* C13: a call whose readiness probe timed out does not fail for it: it
\* returns the new channel, and a pooled lookup has stored it in the map
\* under its address (where it stays until close()).
C13_ProbeTimeoutIsNoError ==
    \A t \in PThreads :
        (cp_pc[t] \in {"done", "released"} /\ cp_probe[t] = "timeout") =>
            /\ cp_raised[t] = "none"
            /\ cp_got[t] # NoConn
            /\ cp_chan[cp_got[t]].addr = cp_addr[t]
            /\ (cp_pooled[t] /\ ~cp_stale[t]) =>
                  cp_connections[cp_addr[t]] = cp_got[t]

\* a pooled and an unpooled call, both with a probe that timed out
C13_Witness ==
    \E t, u \in PThreads :
        /\ cp_pc[t] = "done" /\ cp_pooled[t] /\ cp_probe[t] = "timeout"
        /\ cp_connections[cp_addr[t]] = cp_got[t] /\ cp_got[t] # NoConn
        /\ cp_pc[u] = "done" /\ ~cp_pooled[u] /\ cp_probe[u] = "timeout"
        /\ cp_got[u] # NoConn

\* ---- upload pipeline

\* C3: commitFile is issued only after every chunk of the file was read and
\* every block of every chunk was ACKed: no state has a commitFile issued
\* while a block is unread, unsent or in flight.
C3_CommitAfterAllAcks ==
    up_commits > 0 => AllAcked /\ InFlight = {} /\ BlocksIn("unsent") = {}

C3_Witness ==
    /\ up_commits = 1
    /\ up_total = MaxChunks
    /\ up_phase = "committed"

\* C4: once an upload is cancelled after createFile succeeded, no block write
\* is started any more, the writes in flight at that moment are finished
\* before the workers are out, no commitFile is ever issued, and the file
\* stays reserved on-chain, which is what the caller is told.
C4_CancelLeavesReservedFile ==
    up_cancelled =>
        /\ up_commits = 0
        /\ up_file = "reserved"
        /\ up_phase \in {"streaming", "cancelled"}
        /\ \A c \in Chunks, b \in Blocks :
            /\ up_at_cancel[c][b] \in {"unread", "unsent"}
                  => up_block[c][b] = up_at_cancel[c][b]
            /\ up_at_cancel[c][b] = "inflight"
                  => up_block[c][b] \in {"inflight", "acked", "failed"}
        /\ up_phase = "cancelled" =>
            /\ InFlight = {}
            /\ up_result = "CANCELLED, file reserved"

\* cancelled with a write in flight, which then finished
C4_Witness ==
    /\ up_phase = "cancelled"
    /\ \E c \in Chunks, b \in Blocks :
        up_at_cancel[c][b] = "inflight" /\ up_block[c][b] = "acked"
    /\ BlocksIn("unsent") # {}

\* C14: the block operations in flight are never more than max_concurrency.
C14_InFlightCapped == Cardinality(InFlight) <= up_max_concurrency

\* every slot taken while blocks wait
C14_Witness ==
    /\ up_max_concurrency = MaxConcurrency
    /\ Cardinality(InFlight) = MaxConcurrency
    /\ BlocksIn("unsent") # {}

\* the links of the chunks read so far, in ascending chunk index
LinksInReadOrder(n) == [i \in 1..n |-> up_input[i - 1]]

\* C15: whatever the order in which the blocks and chunks complete, the links
\* of the file root are the chunk CIDs in ascending chunk index, and the
\* rootCID given to commitFile is the one built over exactly these links.
C15_RootIndependentOfCompletion ==
    /\ up_links = LinksInReadOrder(up_read)
    /\ up_commits > 0 => up_root = build(LinksInReadOrder(up_total))

\* the last chunk was ACKed in full while a block of the first chunk was
\* still to be sent, and the file was committed afterwards
C15_Witness ==
    /\ up_phase = "committed"
    /\ up_total = MaxChunks
    /\ up_overtaken
    /\ up_root = build(LinksInReadOrder(MaxChunks))
    /\ up_input[0] > up_input[1]

\* ---- Splitter

\* the payloads next_bytes yielded since construction or the last reset
Payloads == SelectSeq(sp_results, LAMBDA r : r.kind = "sealed")

\* the i-th (from 1) successive read of block_size bytes, from position start
NthRead(source, start, i) ==
    Read(source, start + (i - 1) * sp_block_size, sp_block_size)

\* C16: the i-th payload yielded (i from 0) since construction or the last
\* reset is the seal of the i-th successive read of up to block_size bytes,
\* with the info block_i, and counter is the number of payloads yielded.
C16_BlocksInSourceOrder ==
    /\ sp_counter = Len(Payloads)
    /\ \A i \in 1..Len(Payloads) :
        Payloads[i] = encrypt(NthRead(sp_source, sp_start, i), i - 1)

\* three blocks yielded, the last one short
C16_Witness ==
    /\ sp_block_size = 2
    /\ Len(sp_source) = 3
    /\ sp_source[1] # sp_source[3]
    /\ Len(Payloads) = 2
    /\ Payloads[2] = encrypt(<<sp_source[3]>>, 1)
    /\ sp_counter = 2

\* C17: after a read of fewer than block_size bytes the short block is what
\* the advance returns and the next advance returns end-of-stream; after an
\* end-of-stream every later advance returns end-of-stream, and the source
\* is not read again: the reads are one per block returned plus the one that
\* found the end.
C17_EndOfStreamAfterShortRead ==
    /\ \A i \in 1..Len(sp_results) :
        /\ (sp_results[i].kind = "sealed"
              /\ Len(sp_results[i].data) < sp_block_size
              /\ i < Len(sp_results))
             => sp_results[i + 1] = EndOfStream
        /\ sp_results[i] = EndOfStream =>
             \A j \in i..Len(sp_results) : sp_results[j] = EndOfStream
    /\ (\E i \in 1..Len(sp_results) : sp_results[i] = EndOfStream) =>
        /\ sp_eof_reached
        /\ sp_nreads =
             Cardinality({i \in 1..Len(sp_results) : sp_results[i] # EndOfStream}) + 1

\* a short block, then end-of-stream three times
C17_Witness ==
    /\ Len(sp_results) = 4
    /\ sp_results[1].kind = "sealed"
    /\ Len(sp_results[1].data) < sp_block_size
    /\ sp_results[2] = EndOfStream
    /\ sp_results[4] = EndOfStream
    /\ sp_nreads = 2

\* C18: reset() on a seekable source seeks to 0, zeros the counter and clears
\* the end-of-stream state, so that the next pass yields the blocks of the
\* first pass again, from block_0 on; and reset() zeros the counter only if
\* the source is seekable.
C18_ResetReplaysIfSeekable ==
    (sp_last_reset.called /\ ~sp_last_reset.new_reader) =>
        /\ sp_kind = "seekable" =>
            /\ sp_last_reset.seeked /\ sp_last_reset.after = 0
            /\ sp_start = 0
            /\ sp_counter = Len(Payloads)
            /\ \A i \in 1..Len(Payloads) :
                Payloads[i] = encrypt(NthRead(sp_source, 0, i), i - 1)
        /\ sp_kind # "seekable" => sp_last_reset.after = sp_last_reset.before

\* ---- SDK.__init__

\* C19: the construction fails with an SDKError exactly when block_part_size
\* is not in 1..BLOCK_SIZE, or the key is neither empty nor 32 bytes long, or
\* parity_blocks_count is above half of streaming_max_blocks_in_chunk; every
\* other configuration constructs an SDK.
C19_ConstructionFailsExactlyWhen ==
    sdk_state # "new" =>
        LET rejected ==
                \/ sdk_config.block_part_size <= 0
                \/ sdk_config.block_part_size > BLOCK_SIZE
                \/ sdk_config.key_len \notin {0, 32}
                \/ sdk_config.parity_blocks_count >
                       sdk_config.streaming_max_blocks_in_chunk \div 2
        IN  /\ rejected => sdk_state = "failed"
                           /\ sdk_error \in {"SDKError: Invalid blockPartSize",
                                             "SDKError: Encryption key length",
                                             "SDKError: Parity blocks count"}
            /\ ~rejected => sdk_state = "constructed" /\ sdk_error = "none"

\* a configuration rejected for its parity count alone, one above the limit
C19_Witness ==
    /\ sdk_state = "failed"
    /\ sdk_error = "SDKError: Parity blocks count"
    /\ sdk_config.block_part_size = BLOCK_SIZE
    /\ sdk_config.key_len = 32
    /\ sdk_config.streaming_max_blocks_in_chunk = MaxBlocksInChunk
    /\ sdk_config.parity_blocks_count = MaxBlocksInChunk \div 2 + 1

\* C20: in every SDK constructed the erasure coder exists iff
\* parity_blocks_count > 0, and then m = parity_blocks_count and
\* k = streaming_max_blocks_in_chunk - m, so k + m is
\* streaming_max_blocks_in_chunk and k >= m >= 1.
C20_ErasureCoderFromOptions ==
    sdk_state = "constructed" =>
        /\ sdk_erasure.exists <=> sdk_config.parity_blocks_count > 0
        /\ sdk_erasure.exists =>
            /\ sdk_erasure.parity_blocks = sdk_config.parity_blocks_count
            /\ sdk_erasure.data_blocks =
                 sdk_config.streaming_max_blocks_in_chunk
                     - sdk_config.parity_blocks_count
            /\ sdk_erasure.data_blocks + sdk_erasure.parity_blocks =
                 sdk_config.streaming_max_blocks_in_chunk
            /\ sdk_erasure.data_blocks >= sdk_erasure.parity_blocks
            /\ sdk_erasure.parity_blocks >= 1

\* an odd number of blocks with as many parity blocks as allowed
C20_Witness ==
    /\ sdk_state = "constructed"
    /\ sdk_config.streaming_max_blocks_in_chunk = MaxBlocksInChunk
    /\ sdk_config.parity_blocks_count = MaxBlocksInChunk \div 2
    /\ sdk_erasure = [exists |-> TRUE,
                      data_blocks |-> MaxBlocksInChunk - MaxBlocksInChunk \div 2,
                      parity_blocks |-> MaxBlocksInChunk \div 2]

\* ---- DAG builder

\* the payloads of the leaves, joined in block order
RECURSIVE JoinedPayloads(_)
JoinedPayloads(blocks) ==
    IF Len(blocks) = 0 THEN <<>>
    ELSE blocks[1].data.payload \o JoinedPayloads(Tail(blocks))

\* build_dag returned a ChunkDAG for bytes it did not encrypt
BuiltPlain == dag_chunk.status = "ok" /\ ~dag_has_key

\* one leaf for n <= blockSize, ceil(n / blockSize) leaves otherwise, none
\* above blockSize, and joined they are the input
LeavesSliceInput ==
    LET n == Len(dag_data)
        blocks == dag_chunk.blocks
    IN  /\ n <= dag_block_size => Len(blocks) = 1
        /\ n > dag_block_size =>
             /\ (Len(blocks) - 1) * dag_block_size < n
             /\ n <= Len(blocks) * dag_block_size
        /\ \A i \in DOMAIN blocks : Len(blocks[i].data.payload) <= dag_block_size
        /\ JoinedPayloads(blocks) = dag_data

\* the chunk root links every leaf, in block order
RootLinksEveryLeaf ==
    /\ Len(dag_chunk.cid.links) = Len(dag_chunk.blocks)
    /\ \A i \in DOMAIN dag_chunk.blocks :
         dag_chunk.cid.links[i] = dag_chunk.blocks[i].cid

C25_EmptyInputIsAnError ==
    /\ dag_calls > 0 /\ dag_data = <<>> =>
         /\ dag_chunk.status = "DAGError: failed to build chunk DAG: empty data"
         /\ dag_chunk.blocks = <<>>
    /\ dag_root # RootNotBuilt /\ dag_links = <<>> =>
         dag_root.codec = "DAGError: no chunks added"

\* both errors in one run: an empty read, then a build of the root
C25_Witness ==
    /\ dag_calls > 0
    /\ dag_data = <<>>
    /\ dag_chunk.status = "DAGError: failed to build chunk DAG: empty data"
    /\ dag_links = <<>>
    /\ dag_root.codec = "DAGError: no chunks added"

\* ---- ErasureCode

\* C23: the k+m shards of encode(data), given to extract_data_blocks with at
\* most m of them missing, decode to exactly data; with more than m missing
\* the decoding fails with an error and returns no data.
C23_ErasureTolerance ==
    ec_pc = "extracted" =>
        /\ Cardinality(ec_missing) <= ec_parity_blocks =>
             ec_result.status = "ok" /\ ec_result.data = ec_data
        /\ Cardinality(ec_missing) > ec_parity_blocks =>
             ec_result.status \notin {"ok", "none"} /\ ec_result.data = <<>>

\* the part of C23 that holds of data that is not empty
C23_ToleranceOfNonEmptyData ==
    ec_pc = "extracted" /\ ec_data # <<>> => C23_ErasureTolerance

\* ---- Download pipeline

\* blocks a chunk may lose: m with a coder, none without
Tolerance == IF dl_erasure.on THEN dl_erasure.m ELSE 0

\* the chunks written so far
WrittenChunks == {c \in DOMAIN dl_file : dl_outcome[c] = "written"}

\* the bytes of the first n chunks of the file
FirstChunks(n) == Flatten([c \in 1..n |-> dl_file[c]])

\* C26: a block whose bytes do not match the expected CID counts as an
\* erasure; a chunk fails iff more than m of its blocks are missing or
\* mismatched (without a coder: iff any is); otherwise the original bytes of
\* the chunk are written to the sink.
C26_FatalBeyondTolerance ==
    /\ \A b \in DOMAIN dl_blocks :
         dl_blocks[b].got \in {"missing", "mismatched"} =>
             ~dl_blocks[b].block.present
    /\ \A c \in DOMAIN dl_file :
         dl_outcome[c] # "none" =>
             (dl_outcome[c] = "failed" <=> dl_erased[c] > Tolerance)
    /\ dl_sink = FirstChunks(Cardinality(WrittenChunks))

\* a chunk written although blocks of it were lost
C26_Witness ==
    /\ dl_erasure.on
    /\ \E c \in DOMAIN dl_file :
         /\ dl_outcome[c] = "written"
         /\ dl_erased[c] = dl_erasure.m
         /\ dl_erased[c] > 0
         /\ Len(dl_file[c]) = MaxDlChunkLen
    /\ dl_sink # <<>>

\* C27: the chunks are worked in the order of the descriptor: for each the
\* chunk download is created first, then its blocks are fetched and written,
\* once per chunk; the sink gets the chunks in ascending order and nothing of
\* chunk i+1 before chunk i is complete.
C27_ChunksInDescriptorOrder ==
    /\ \A c \in DOMAIN dl_file :
         /\ dl_created[c] <= 1
         /\ dl_outcome[c] # "none" => dl_created[c] = 1
         /\ c > 1 /\ dl_created[c] > 0 => dl_outcome[c - 1] = "written"
    /\ dl_pc = "fetch" => dl_created[dl_cur] = 1 /\ dl_outcome[dl_cur] = "none"
    /\ WrittenChunks = 1..Cardinality(WrittenChunks)
    /\ dl_sink = Flatten([c \in 1..Cardinality(WrittenChunks) |-> dl_file[c]])
    /\ dl_pc = "done" => WrittenChunks = DOMAIN dl_file

\* a download of several chunks of two bytes went through
C27_Witness ==
    /\ dl_pc = "done"
    /\ Len(dl_file) = MaxDlChunks
    /\ \A c \in DOMAIN dl_file : dl_created[c] = 1 /\ Len(dl_file[c]) = 2
    /\ dl_sink = FirstChunks(MaxDlChunks)

\* ---- claims on the bucket and file operations

\* the last call raised
Raised == fc_result.kind \in {"SDKError", "ValueError", "Exception"}

\* the last call left the client silent: no request, no view, no transaction
NothingLeft == fc_grpc = <<>> /\ fc_views = <<>> /\ fc_txs = <<>>

\* C21: a bucket operation with a name shorter than MIN_BUCKET_NAME_LENGTH is
\* rejected before anything leaves the client: SDK.create_bucket,
\* SDK.view_bucket and SDK.delete_bucket raise SDKError and issue no gRPC
\* request, IPC.create_bucket raises SDKError 'invalid bucket name' and
\* submits no createBucket transaction.
C21_ShortNameRejected ==
    /\ ( /\ fc_call.api = "SDK"
         /\ fc_call.op \in {"create_bucket", "view_bucket", "delete_bucket"}
         /\ Len(fc_call.bucket) < 3 )
       => fc_result.kind = "SDKError" /\ fc_grpc = <<>>
    /\ ( /\ fc_call.api = "IPC"
         /\ fc_call.op = "create_bucket"
         /\ Len(fc_call.bucket) < 3 )
       => fc_result.kind = "SDKError" /\ fc_txs = <<>>

\* The part of C21 the code keeps: the three operations of SDK raise SDKError
\* with no request, and IPC.create_bucket raises (a ValueError) with no
\* transaction.
C21_ShortNameNeverLeaves ==
    ( /\ fc_call.op \in {"create_bucket", "view_bucket", "delete_bucket"}
      /\ fc_call.api = "SDK" \/ fc_call.op = "create_bucket"
      /\ Len(fc_call.bucket) < 3 )
    => /\ Raised
       /\ NothingLeft
       /\ fc_call.api = "SDK" => fc_result.kind = "SDKError"

\* the operations of IPC that check for empty names
NamedOps ==
    {"view_bucket", "delete_bucket", "list_files", "file_info",
     "create_file_upload", "file_delete", "create_file_download",
     "file_set_public_access"}

\* the operations of IPC that take a file name
FileOps == NamedOps \ {"view_bucket", "delete_bucket", "list_files"}

\* C22: every operation of IPC that takes names rejects an empty bucket name
\* or an empty file name with an SDKError ('empty bucket name', 'empty file
\* name', 'empty bucket or file name') before any gRPC request or on-chain
\* transaction.
C22_EmptyNameRejected ==
    ( /\ fc_call.api = "IPC"
      /\ fc_call.op \in NamedOps
      /\ \/ fc_call.bucket = ""
         \/ fc_call.op \in FileOps /\ fc_call.file = "" )
    => /\ fc_result.kind = "SDKError"
       /\ fc_result.value = IF fc_call.op = "file_delete"
                            THEN "empty bucket or file name"
                            ELSE IF fc_call.bucket = ""
                            THEN "empty bucket name"
                            ELSE "empty file name"
       /\ NothingLeft
       /\ fc_buckets = fc_before.buckets
       /\ fc_files = fc_before.files

C22_Witness ==
    /\ fc_call.api = "IPC"
    /\ fc_call.op = "create_file_download"
    /\ fc_call.bucket = "abc"
    /\ fc_call.file = ""
    /\ fc_result = [kind |-> "SDKError", value |-> "empty file name"]
    /\ NothingLeft

\* the last call is a view_bucket of a name that passes the name check
Viewed ==
    /\ fc_call.op = "view_bucket"
    /\ IF fc_call.api = "SDK" THEN Len(fc_call.bucket) >= 3
                              ELSE fc_call.bucket # ""

\* C28: view_bucket is free of side effects and total on absence: it issues
\* only the BucketView read, no transaction and no write; a repeated call
\* returns the same bucket; after a successful create_bucket(n) it returns
\* the bucket named n; for a bucket the node reports as NOT_FOUND, or answers
\* with an empty response, it returns None instead of raising.
C28_ViewBucketPureAndTotal ==
    /\ fc_call.op = "view_bucket"
       => /\ fc_txs = <<>>
          /\ fc_views = <<>>
          /\ \A i \in 1..Len(fc_grpc) : fc_grpc[i] = "BucketView"
          /\ fc_buckets = fc_before.buckets
          /\ fc_files = fc_before.files
    /\ ( /\ Viewed
         /\ ~ Raised
         /\ fc_prev.call.op = "view_bucket"
         /\ fc_prev.call.api = fc_call.api
         /\ fc_prev.call.bucket = fc_call.bucket )
       => fc_result = fc_prev.result
    /\ ( /\ Viewed
         /\ fc_call.answer = "truth"
         /\ fc_prev.call.op = "create_bucket"
         /\ fc_prev.call.api = fc_call.api
         /\ fc_prev.call.bucket = fc_call.bucket )
       => /\ fc_result.kind \in {"Bucket", "IPCBucket"}
          /\ fc_result.value = fc_call.bucket
    /\ ( /\ Viewed
         /\ fc_call.answer \in {"truth", "empty"}
         /\ fc_call.bucket \notin fc_buckets )
       => fc_result.kind = "None"

\* The part of C28 the code keeps: everything but None for an absent bucket
\* from SDK.view_bucket.
C28_ViewBucketPure ==
    /\ fc_call.op = "view_bucket"
       => /\ fc_txs = <<>>
          /\ fc_views = <<>>
          /\ \A i \in 1..Len(fc_grpc) : fc_grpc[i] = "BucketView"
          /\ fc_buckets = fc_before.buckets
          /\ fc_files = fc_before.files
    /\ ( /\ Viewed
         /\ ~ Raised
         /\ fc_prev.call.op = "view_bucket"
         /\ fc_prev.call.api = fc_call.api
         /\ fc_prev.call.bucket = fc_call.bucket )
       => fc_result = fc_prev.result
    /\ ( /\ Viewed
         /\ fc_call.answer = "truth"
         /\ fc_prev.call.op = "create_bucket"
         /\ fc_prev.call.api = fc_call.api
         /\ fc_prev.call.bucket = fc_call.bucket )
       => /\ fc_result.kind \in {"Bucket", "IPCBucket"}
          /\ fc_result.value = fc_call.bucket
    /\ ( /\ Viewed
         /\ fc_call.api = "IPC"
         /\ fc_call.answer \in {"truth", "empty"}
         /\ fc_call.bucket \notin fc_buckets )
       => fc_result.kind = "None"

\* the message of the first check of file_set_public_access that the last
\* call fails, "" when it passes them all
FirstFailedCheck ==
    IF fc_call.bucket = "" THEN "empty bucket name"
    ELSE IF fc_call.file = "" THEN "empty file name"
    ELSE IF fc_call.bucket \notin fc_before.buckets THEN "bucket not found"
    ELSE IF <<fc_call.bucket, fc_call.file>> \notin fc_before.files
    THEN "failed to get file"
    ELSE IF ~ fc_access_manager THEN "access manager not available"
    ELSE ""

C29_WitnessNoManager ==
    /\ fc_call.op = "file_set_public_access"
    /\ fc_result.value = "access manager not available"
    /\ fc_txs = <<>>

\* C30: IPC.delete_bucket of a bucket the node reports as NOT_FOUND fails with
\* an SDKError 'not found' and submits no deleteBucket transaction; of a
\* bucket that exists it submits deleteBucket exactly once.
C30_DeleteBucketOnceIfFound ==
    ( fc_call.api = "IPC" /\ fc_call.op = "delete_bucket" /\ fc_call.bucket # "" )
    => /\ ( /\ fc_call.bucket \notin fc_before.buckets
            /\ fc_call.answer \in {"truth", "empty"} )
          => /\ fc_result = [kind |-> "SDKError", value |-> "bucket not found"]
             /\ fc_txs = <<>>
       /\ fc_call.bucket \notin fc_before.buckets => fc_txs = <<>>
       /\ ( /\ fc_call.bucket \in fc_before.buckets
            /\ fc_call.answer = "truth" )
          => fc_txs = << [fn |-> "deleteBucket",
                          args |-> <<"auth", fc_call.bucket>>] >>

C30_Witness ==
    /\ fc_call.api = "IPC"
    /\ fc_call.op = "delete_bucket"
    /\ fc_call.bucket = "abc"
    /\ fc_before.buckets = {"abc"}
    /\ Len(fc_txs) = 1
    /\ fc_result.kind = "ok"
    /\ fc_buckets = {}

\* the other case of C30: the bucket is not there and nothing is submitted
C30_WitnessNotFound ==
    /\ fc_call.api = "IPC"
    /\ fc_call.op = "delete_bucket"
    /\ fc_call.answer = "truth"
    /\ fc_result.value = "bucket not found"
    /\ fc_txs = <<>>

\* ---- claims on the sizes and the root of the DAG

\* C33: ChunkDAG.raw_data_size returned by build_dag equals the number of
\* bytes read from the reader (the plaintext length), in the single-leaf and
\* in the multi-leaf branch, with or without an encryption key.
C33_RawSizeIsBytesRead ==
    dag_chunk.status = "ok" => dag_chunk.raw_data_size = Len(dag_data)

\* The part of C33 the code keeps: without a key, and in the multi-leaf
\* branch with one.
C33_RawSizeUnlessSealedLeaf ==
    ( /\ dag_chunk.status = "ok"
      /\ ~ dag_has_key \/ Len(dag_chunk.blocks) > 1 )
    => dag_chunk.raw_data_size = Len(dag_data)

RECURSIVE RawSizes(_)
\* the sum of the raw sizes passed in a sequence of add_link calls
RawSizes(args) ==
    IF Len(args) = 0 THEN 0
    ELSE args[1].raw_data_size + RawSizes(Tail(args))

\* build() returned a root
RootBuilt == dr_root.codec \in {"link", "digest", "dag-pb"}

\* links and total_file_size are the calls so far, in call order
RootHoldsEveryCall ==
    /\ Len(dr_links) = Len(dr_args)
    /\ \A i \in 1..Len(dr_args) :
        /\ dr_links[i].cid_str = dr_args[i].chunk_cid.name
        /\ dr_links[i].size = dr_args[i].proto_node_size
    /\ dr_total_file_size = RawSizes(dr_args)

\* C40: DAGRoot accumulates chunks without loss or reordering: after any
\* sequence of add_link calls links holds one entry per call in call order
\* and total_file_size is the sum of the raw sizes passed; build() does not
\* change them; the root it builds for two or more chunks has exactly one
\* link per added chunk in that order, and for exactly one chunk build()
\* returns that chunk's own CID.
C40_RootKeepsEveryChunk ==
    /\ RootHoldsEveryCall
    /\ ( RootBuilt /\ Len(dr_args) >= 2 )
       => dr_root.links = [i \in 1..Len(dr_args) |-> dr_args[i].chunk_cid.name]
    /\ ( RootBuilt /\ Len(dr_args) = 1 )
       => dr_root = [codec |-> "link", links |-> <<dr_args[1].chunk_cid.name>>]

\* The part of C40 the code keeps: the root has every chunk when the
\* libraries are missing or every CID decodes.
C40_RootKeepsDecodableChunks ==
    /\ RootHoldsEveryCall
    /\ ( /\ RootBuilt
         /\ Len(dr_args) >= 2
         /\ ~ dr_ipld \/ \A i \in 1..Len(dr_args) : dr_args[i].chunk_cid.decodes )
       => dr_root.links = [i \in 1..Len(dr_args) |-> dr_args[i].chunk_cid.name]
    /\ ( RootBuilt /\ Len(dr_args) = 1 )
       => dr_root = [codec |-> "link", links |-> <<dr_args[1].chunk_cid.name>>]

\* ---- claims on the output of ErasureCode.encode

\* b"".join(all_shards): the bytes encode returns
Encoded == Flatten(ec_shards)

\* ceil(n / k), as the least s with s * k >= n
CeilDiv(n, k) == CHOOSE s \in 0..n : s * k >= n /\ (s = 0 \/ (s - 1) * k < n)

\* C39: ErasureCode.encode is systematic and length-exact: for data of length
\* n and shardSize = ceil(n / k) the output has exactly (k + m) * shardSize
\* bytes, its first k * shardSize bytes are data followed by zero padding, so
\* its first n bytes are data, and encoding the same data again gives the
\* same output.
C39_EncodeSystematic ==
    ec_pc # "new"
    => LET n == Len(ec_data)
           shardSize == CeilDiv(n, ec_data_blocks)
       IN  /\ Len(Encoded) = (ec_data_blocks + ec_parity_blocks) * shardSize
           /\ \A i \in 1..(ec_data_blocks * shardSize) :
                Encoded[i] = IF i <= n THEN ec_data[i] ELSE 0
           /\ Len(ec_shards) = ec_data_blocks + ec_parity_blocks
           /\ \A i \in 1..Len(ec_shards) : Len(ec_shards[i]) = shardSize
           /\ ec_shards = encode(ec_data, ec_data_blocks, ec_parity_blocks)

\* data that does not fill the last data shard: padding and parity follow it
C39_Witness ==
    /\ ec_pc = "encoded"
    /\ ec_data_blocks = 2
    /\ Len(ec_data) = 3
    /\ Len(Encoded) = (2 + ec_parity_blocks) * 2
    /\ Encoded[4] = 0

\* ---- claims on the channels of the SDK

\* C36: a failed SDK construction leaves no gRPC channel open: whenever
\* SDK.__init__ raises SDKError for an invalid block_part_size, encryption key
\* length or parity count, every channel it opened before the failing check
\* has been closed, or none was opened.
C36_FailedConstructionLeavesNoChannel ==
    ( /\ sdk_state = "failed"
      /\ sdk_error \in {"SDKError: Invalid blockPartSize",
                        "SDKError: Encryption key length",
                        "SDKError: Parity blocks count"} )
    => sdk_open = {}

\* The part of C36 the code keeps: nothing is open when block_part_size is
\* refused, the check that comes before the channels.
C36_NoChannelBeforeSizeCheck ==
    ( sdk_state = "failed" /\ sdk_error = "SDKError: Invalid blockPartSize" )
    => sdk_open = {}

\* C37: SDK.close() closes each distinct channel of the SDK exactly once:
\* with ipc_address unset or equal to address the data-plane and the IPC stub
\* share one channel and close() closes it once, not twice; when they differ
\* both channels are closed, once each.
C37_CloseEachChannelOnce ==
    sdk_ncloses > 0
    => /\ sdk_config.ipc_address # "other"
          => /\ sdk_conn = sdk_ipc_conn
             /\ sdk_closes = [c \in {1, 2} |-> IF c = 1 THEN 1 ELSE 0]
       /\ sdk_config.ipc_address = "other"
          => /\ sdk_conn # sdk_ipc_conn
             /\ sdk_closes = [c \in {1, 2} |-> 1]
       /\ sdk_open = {}

\* one shared channel, closed
C37_Witness ==
    /\ sdk_ncloses = 1
    /\ sdk_config.ipc_address = "same"
    /\ sdk_conn = 1
    /\ sdk_ipc_conn = 1
    /\ sdk_closes[1] = 1

\* two channels, closed
C37_WitnessTwoChannels ==
    /\ sdk_ncloses = 1
    /\ sdk_config.ipc_address = "other"
    /\ sdk_closes[1] = 1
    /\ sdk_closes[2] = 1

\* ---- claims on the retries and the channels of create_client

\* a gRPC error of the creation step ends the call: no run and no sleep
\* follows it
GrpcErrorEndsCall ==
    \A i \in 1..Len(cn_runs) :
        cn_runs[i] = "RpcError"
        => /\ i = Len(cn_runs)
           /\ cn_pc = "done"
           /\ cn_result.kind = "SDKError"
           /\ cn_result.msg = "gRPC call failed"

\* C34: an invalid (empty or blank) address is a non-retryable error of
\* create_client and create_ipc_client: the call fails with the
\* invalid-address SDKError after running the creation step once, with no
\* backoff sleep and no further attempt; a gRPC error raised by the creation
\* step is likewise never retried.
C34_InvalidAddressNotRetried ==
    /\ ( cn_call.op # "none" /\ InvalidAddress(cn_call.addr) )
       => /\ Len(cn_runs) <= 1
          /\ cn_slept = 0
          /\ cn_pc # "sleep"
          /\ cn_pc = "done"
             => cn_result = [kind |-> "SDKError", msg |-> "Invalid address",
                             conn |-> 0]
    /\ GrpcErrorEndsCall

\* The part of C34 the code keeps: a gRPC error is never retried, and a call
\* with an invalid address fails, opening no channel.
C34_InvalidAddressFails ==
    /\ ( cn_call.op # "none" /\ InvalidAddress(cn_call.addr) /\ cn_pc = "done" )
       => /\ cn_result.kind = "SDKError"
          /\ Len(cn_runs) = PoolRetries
          /\ cn_slept = PoolRetries - 1
          /\ \A i \in 1..Len(cn_runs) : cn_runs[i] = "Invalid address"
    /\ GrpcErrorEndsCall

\* C35: a connection attempt that fails is never cached: when opening a
\* channel for an address raises (any failure but the readiness timeout) the
\* new channel is closed, the pool map is left unchanged, and a later pooled
\* lookup of the address opens a fresh channel instead of returning the
\* failed one.
C35_FailedAttemptNotCached ==
    /\ \A i \in 1..Len(cn_chan) :
        cn_chan[i].probe = "error"
        => cn_chan[i].state = "closed" /\ cn_connections # i
    /\ cn_connections # 0
       => /\ cn_connections \in 1..Len(cn_chan)
          /\ cn_chan[cn_connections].state = "open"
    /\ cn_result.kind = "ok"
       => /\ cn_result.conn \in 1..Len(cn_chan)
          /\ cn_chan[cn_result.conn].probe \in {"ready", "timeout"}
          /\ cn_chan[cn_result.conn].state = "open"
          /\ cn_call.pooled => cn_connections = cn_result.conn

\* the map never changes in a step in which the probe of a new channel fails
C35_MapUnchangedOnFailure ==
    [][ ( /\ Len(cn_chan') = Len(cn_chan) + 1
          /\ cn_chan'[Len(cn_chan')].probe = "error" )
        => cn_connections' = cn_connections ]_vars

\* a pooled lookup whose first attempt failed and whose second opened a
\* fresh channel, now in the map
C35_Witness ==
    /\ cn_call.pooled
    /\ Len(cn_runs) = 2
    /\ cn_runs[1] = "error"
    /\ Len(cn_chan) = 2
    /\ cn_chan[1] = [state |-> "closed", probe |-> "error"]
    /\ cn_result.kind = "ok"
    /\ cn_result.conn = 2
    /\ cn_connections = 2

\* ---- claims on the keys of files

\* bucketName + "/" + fileName, and so on for more components, as bytes
InfoOf(info_data) ==
    LET slash(name) == <<47>> \o [i \in 1..Len(name) |-> IF name[i] = "/" THEN 47 ELSE 97]
        first == [i \in 1..Len(info_data[1]) |->
                    IF info_data[1][i] = "/" THEN 47 ELSE 97]
    IN  IF Len(info_data) = 2
        THEN first \o slash(info_data[2])
        ELSE first \o slash(info_data[2]) \o slash(info_data[3])

\* C31: per-file key derivation: with an empty root key the derived key is
\* empty (encryption off) and derive_key is not called; with a non-empty root
\* key the derived key is derive_key(rootKey, info), info being the path
\* components joined with "/" (bucketName + "/" + fileName for a file), so
\* equal (rootKey, components) always give the same key.
C31_KeyFromRootAndPath ==
    /\ ( kd_pc # "new" /\ kd_parent_key = <<>> )
       => kd_key = <<>> /\ kd_derive_calls = <<>>
    /\ ( kd_pc = "derived" /\ kd_parent_key # <<>> )
       => /\ kd_derive_calls = <<[key |-> kd_parent_key,
                                  info |-> InfoOf(kd_info_data)]>>
          /\ kd_key = <<"key of", kd_parent_key, InfoOf(kd_info_data)>>
    /\ ( kd_pc = "both" /\ kd_info_data = kd_other_info )
       => kd_key = kd_other_key

\* a key derived for bucket "a", file "a" from a root key
C31_Witness ==
    /\ kd_pc = "derived"
    /\ kd_parent_key = <<1>>
    /\ kd_info_data = << <<"a">>, <<"a">> >>
    /\ kd_key = <<"key of", <<1>>, <<97, 47, 97>>>>
    /\ Len(kd_derive_calls) = 1

\* C38: key derivation separates files: for a fixed non-empty root key two
\* different (bucketName, fileName) pairs never give the same info string,
\* hence never the same file key; a '/' inside a bucket or file name cannot
\* make two different pairs collide.
C38_KeysSeparateFiles ==
    ( /\ kd_pc = "both"
      /\ kd_parent_key # <<>>
      /\ Len(kd_info_data) = 2
      /\ kd_info_data # kd_other_info )
    => /\ kd_derive_calls[1].info # kd_derive_calls[2].info
       /\ kd_key # kd_other_key

\* no '/' in the name
Slashless(name) == \A i \in 1..Len(name) : name[i] # "/"

\* The part of C38 the code keeps: pairs of names without '/' never share
\* a key.
C38_KeysSeparateSlashlessNames ==
    ( /\ kd_pc = "both"
      /\ kd_parent_key # <<>>
      /\ Len(kd_info_data) = 2
      /\ kd_info_data # kd_other_info
      /\ \A i \in 1..2 : Slashless(kd_info_data[i]) /\ Slashless(kd_other_info[i]) )
    => /\ kd_derive_calls[1].info # kd_derive_calls[2].info
       /\ kd_key # kd_other_key
\* C32: every signature sign() returns is 65 bytes r || s || v with v 27 or
\* 28, the recovery id raised by 27 once whether the library wrote 0/1 or
\* 27/28, and recover_signer_address gives the address of the signing key.
C32_SignatureRecoversSigner ==
    /\ sg_pc # "new" =>
         /\ Len(sg_signature) = 65
         /\ sg_signature[65] \in {27, 28}
         /\ sg_signature[65] =
              RecoveryId(sg_key, hash_typed_data(sg_chain_id, sg_message)) + 27
    /\ sg_pc = "recovered" => sg_recovered = AddressOf(sg_key)

\* a signature with v = 28 from a library that wrote 1 was recovered
C32_Witness ==
    /\ sg_pc = "recovered"
    /\ sg_library_v = 0
    /\ sg_signature[65] = 28
    /\ sg_recovered = AddressOf(sg_key)

\* a signature whose v the library had already written as 27 was recovered
C32_WitnessAlreadyRaised ==
    /\ sg_pc = "recovered"
    /\ sg_library_v = 27
    /\ sg_signature[65] = 27

====
